---- MODULE Spec2Model ----
(***************************************************************************)
(* Model of scripts/refresh_airtable_data.py: the sync engine that mirrors *)
(* Airtable tables into CSV files (delta or full), the attachment cache    *)
(* (dedup, size cap, download budget) and the run-wide prune of the media  *)
(* directory.                                                              *)
(*                                                                         *)
(* Python values are modelled by records of one shape, [k, b, n, m, s, l], *)
(* tagged by k:                                                            *)
(*   "none"  None                                                          *)
(*   "bool"  the boolean b                                                 *)
(*   "num"   the number n                                                  *)
(*   "str"   the text s (a text holding no ISO timestamp and no media      *)
(*           reference)                                                    *)
(*   "ts"    an ISO-8601 text: local time n at UTC offset m                *)
(*   "media" the text of an attachment cell: the tokens l, comma-joined    *)
(*   "list"  a list of attachment dicts l                                  *)
(* File names, attachment ids and URLs are sequences of one-character      *)
(* strings, so that sanitising and concatenation are computed.             *)
(***************************************************************************)
EXTENDS Integers, Sequences, FiniteSets, TLC

\* ------------------------------------------------------------------ bounds
\* The instant of the latest edit in the remote tables: every run starts
\* after it.
LastEdit == 3
\* Latest wall-clock instant of the model (the clock stops there).
MaxClock == 5

\* ------------------------------------------------------- program constants
RECORD_ID_HEADER == "_Airtable Record ID"
LAST_MODIFIED_FIELD_CANDIDATES == <<"Last Modified", "Last Modified Time",
    "Last Modified (All Fields)", "Last Modified (all fields)">>
PUBLISHED_FIELD_CANDIDATES == <<"Published", "Is Published", "Publish">>
IMAGE_EXTENSIONS == {<<"j","p","g">>, <<"j","p","e","g">>, <<"p","n","g">>,
    <<"w","e","b","p">>, <<"g","i","f">>, <<"b","m","p">>, <<"s","v","g">>,
    <<"a","v","i","f">>}
BLOCKED_MEDIA_EXTENSIONS == {<<"t","i","f">>, <<"t","i","f","f">>}
PDF_EXTENSIONS == {<<"p","d","f">>}
\* sanitize_filename keeps at most this many characters.
MaxFilenameLen == 180
\* download_binary's number of attempts.
DownloadAttempts == 3
\* bytes per MB in max_media_file_mb * 1024 * 1024
BytesPerMb == 1048576

\* ------------------------------------------------------------ Python values
VNone == [k |-> "none", b |-> FALSE, n |-> 0, m |-> 0, s |-> "", l |-> <<>>]
VBool(x) == [k |-> "bool", b |-> x, n |-> 0, m |-> 0, s |-> "", l |-> <<>>]
VNum(x) == [k |-> "num", b |-> FALSE, n |-> x, m |-> 0, s |-> "", l |-> <<>>]
VStr(x) == [k |-> "str", b |-> FALSE, n |-> 0, m |-> 0, s |-> x, l |-> <<>>]
VTs(t, off) == [k |-> "ts", b |-> FALSE, n |-> t, m |-> off, s |-> "", l |-> <<>>]
VMedia(toks) == [k |-> "media", b |-> FALSE, n |-> 0, m |-> 0, s |-> "", l |-> toks]
VList(atts) == [k |-> "list", b |-> FALSE, n |-> 0, m |-> 0, s |-> "", l |-> atts]
EmptyText == VStr("")

\* The text of a number, as str() gives it: kept apart from every other text.
NumText(x) == [k |-> "str", b |-> FALSE, n |-> x, m |-> 0, s |-> "#num", l |-> <<>>]

\* bool(value) of Python.
Truthy(v) ==
    CASE v.k = "none" -> FALSE
      [] v.k = "bool" -> v.b
      [] v.k = "num" -> v.n # 0
      [] v.k = "str" -> v.s # ""
      [] v.k = "ts" -> TRUE
      [] v.k = "media" -> v.l # <<>>
      [] v.k = "list" -> v.l # <<>>
      [] OTHER -> FALSE

\* normalize_text: str(value or "").strip(). The texts of the model carry no
\* leading or trailing blanks.
normalize_text(v) ==
    IF ~Truthy(v) THEN EmptyText
    ELSE CASE v.k = "bool" -> VStr("True")
           [] v.k = "num" -> NumText(v.n)
           [] v.k = "list" -> VStr("[...]")
           [] OTHER -> v

\* ---------------------------------------------------------------- timestamps
\* parse_iso_datetime: the UTC instant of an ISO text, NoInstant (None) for
\* anything else. A text without offset is read as UTC (m = 0).
NoInstant == -1
InstantOf(text) == IF text.k = "ts" THEN text.n - text.m ELSE NoInstant
parse_iso_datetime(v) == InstantOf(normalize_text(v))

\* datetime.isoformat() of a UTC datetime.
isoformat(instant) == VTs(instant, 0)

\* `if latest is None or parsed > latest: latest = parsed`, for a parsed value
Later(parsed, latest) ==
    IF parsed = NoInstant THEN latest
    ELSE IF latest = NoInstant \/ parsed > latest THEN parsed
    ELSE latest

RECURSIVE LatestInstant(_, _)
LatestInstant(values, latest) ==
    IF values = <<>> THEN latest
    ELSE LatestInstant(Tail(values), Later(parse_iso_datetime(Head(values)), latest))

\* latest.isoformat() if latest else ""
InstantText(latest) == IF latest = NoInstant THEN EmptyText ELSE isoformat(latest)

\* A mutation: the last parseable value wins, not the latest.
Last(parsed, latest) == IF parsed = NoInstant THEN latest ELSE parsed

RECURSIVE LastInstant(_, _)
LastInstant(values, latest) ==
    IF values = <<>> THEN latest
    ELSE LastInstant(Tail(values), Last(parse_iso_datetime(Head(values)), latest))

latest_timestamp_iso_last(values) == InstantText(LastInstant(values, NoInstant))

latest_timestamp_iso(values) == InstantText(LatestInstant(values, NoInstant))

\* ------------------------------------------------------------------ records
\* A record is [id |-> STRING, fields |-> sequence of [key, val]] with the
\* keys in the order of the JSON object; id "" stands for a missing id.
RECURSIVE FieldGet(_, _, _)
FieldGet(fields, key, default) ==
    IF fields = <<>> THEN default
    ELSE IF Head(fields).key = key THEN Head(fields).val
    ELSE FieldGet(Tail(fields), key, default)

FieldKeys(fields) == [i \in 1..Len(fields) |-> fields[i].key]

SeqRange(s) == {s[i] : i \in 1..Len(s)}

RECURSIVE SeqFilterNot(_, _)
SeqFilterNot(s, x) ==
    IF s = <<>> THEN <<>>
    ELSE IF Head(s) = x THEN SeqFilterNot(Tail(s), x)
    ELSE <<Head(s)>> \o SeqFilterNot(Tail(s), x)

\* is_published
is_published(v) ==
    CASE v.k = "bool" -> v.b
      [] v.k = "num" -> v.n # 0
      [] v.k = "str" -> v.s \in {"1", "true", "yes", "y", "on", "checked",
                                 "True", "TRUE", "Yes", "YES"}
      [] v.k = "ts" -> FALSE
      [] OTHER -> Truthy(v)

\* name.strip().lower() of the field names the model uses.
LowerName(name) ==
    CASE name = "Published" -> "published"
      [] name = "PUBLISHED" -> "published"
      [] name = "Is Published" -> "is published"
      [] name = "Publish" -> "publish"
      [] name = "Last Modified" -> "last modified"
      [] name = "LAST MODIFIED" -> "last modified"
      [] name = "Last Modified Time" -> "last modified time"
      [] name = "Last Modified (All Fields)" -> "last modified (all fields)"
      [] name = "Last Modified (all fields)" -> "last modified (all fields)"
      [] name = "Name" -> "name"
      [] name = "Images" -> "images"
      [] name = "Notes" -> "notes"
      [] name = RECORD_ID_HEADER -> "_airtable record id"
      [] OTHER -> name

\* first_matching_name: lowered_map keeps, for names that lower to one key,
\* the one the set iteration yields last; the model's name sets never hold
\* two names lowering to one key unless stated.
RECURSIVE first_matching_name(_, _)
first_matching_name(existing_names, candidates) ==
    IF candidates = <<>> THEN ""
    ELSE LET key == LowerName(Head(candidates))
             hits == {name \in existing_names : LowerName(name) = key}
         IN IF hits # {} THEN CHOOSE name \in hits : TRUE
            ELSE first_matching_name(existing_names, Tail(candidates))

RECURSIVE AllKeys(_)
AllKeys(records) ==
    IF records = <<>> THEN {}
    ELSE SeqRange(FieldKeys(Head(records).fields)) \cup AllKeys(Tail(records))

discover_field_name_from_records(records, candidates) ==
    IF records = <<>> THEN ""
    ELSE first_matching_name(AllKeys(records), candidates)

\* Mutation: the recorded name is not looked at.
resolve_known_field_name_columns(previous_metadata, known_headers, candidates, metadata_key) ==
    first_matching_name(SeqRange(known_headers), candidates)

\* previous_metadata is the metadata record; key selects one of its fields.
resolve_known_field_name(previous_metadata, known_headers, candidates, metadata_key) ==
    LET from_metadata == normalize_text(previous_metadata[metadata_key])
    IN IF Truthy(from_metadata) THEN from_metadata.s
       ELSE first_matching_name(SeqRange(known_headers), candidates)

\* compute_max_modified_cursor
compute_max_modified_cursor(records, last_modified_field) ==
    IF last_modified_field = "" THEN EmptyText
    ELSE latest_timestamp_iso(
            [i \in 1..Len(records) |->
                FieldGet(records[i].fields, last_modified_field, VNone)])

\* ------------------------------------------------------------------ headers
ensure_record_id_header(headers) ==
    <<RECORD_ID_HEADER>> \o SeqFilterNot(headers, RECORD_ID_HEADER)

RECURSIVE AppendNew(_, _, _)
\* append the names of `names` not yet in `merged`, skipping "" when skipEmpty
AppendNew(merged, names, skipEmpty) ==
    IF names = <<>> THEN merged
    ELSE LET f == Head(names)
         IN AppendNew(
              IF (skipEmpty /\ f = "") \/ f \in SeqRange(merged) THEN merged
              ELSE Append(merged, f),
              Tail(names), skipEmpty)

merge_headers(headers, incoming_fields, preferred_headers) ==
    AppendNew(AppendNew(ensure_record_id_header(headers), preferred_headers, TRUE),
              incoming_fields, FALSE)

RECURSIVE ExtraKeys(_, _, _)
ExtraKeys(records, seen, extras) ==
    IF records = <<>> THEN extras
    ELSE LET keys == FieldKeys(Head(records).fields)
             fresh == AppendNew(<<>>, keys, FALSE)
             add == SelectSeq(fresh, LAMBDA key : key \notin seen)
         IN ExtraKeys(Tail(records), seen \cup SeqRange(add), extras \o add)

compute_headers(records, preferred_headers) ==
    preferred_headers \o ExtraKeys(records, SeqRange(preferred_headers), <<>>)

\* -------------------------------------------------------------- characters
LowerLetters == {"a","b","c","d","e","f","g","h","i","j","k","l","m","n","o",
                 "p","q","r","s","t","u","v","w","x","y","z"}
UpperLetters == {"A","B","C","D","E","F","G","H","I","J","K","L","M","N","O",
                 "P","Q","R","S","T","U","V","W","X","Y","Z"}
Digits == {"0","1","2","3","4","5","6","7","8","9"}
\* [A-Za-z0-9._-]
FilenameChars == LowerLetters \cup UpperLetters \cup Digits \cup {".", "_", "-"}
Whitespace == {" ", "\t", "\n"}

\* str.lower() on one character, for the letters the model's names use.
LowerChar(c) ==
    CASE c = "A" -> "a" [] c = "B" -> "b" [] c = "F" -> "f" [] c = "G" -> "g"
      [] c = "I" -> "i" [] c = "J" -> "j" [] c = "N" -> "n" [] c = "P" -> "p"
      [] c = "T" -> "t" [] c = "D" -> "d"
      [] OTHER -> c

LowerChars(s) == [i \in 1..Len(s) |-> LowerChar(s[i])]

RECURSIVE LStrip(_, _)
LStrip(s, chars) ==
    IF s = <<>> THEN <<>>
    ELSE IF Head(s) \in chars THEN LStrip(Tail(s), chars) ELSE s

RECURSIVE RStrip(_, _)
RStrip(s, chars) ==
    IF s = <<>> THEN <<>>
    ELSE IF s[Len(s)] \in chars THEN RStrip(SubSeq(s, 1, Len(s) - 1), chars) ELSE s

Strip(s, chars) == RStrip(LStrip(s, chars), chars)

\* the characters of s before the first one in `stops`
RECURSIVE TakeUntil(_, _)
TakeUntil(s, stops) ==
    IF s = <<>> THEN <<>>
    ELSE IF Head(s) \in stops THEN <<>>
    ELSE <<Head(s)>> \o TakeUntil(Tail(s), stops)

\* the characters of s after its last "/"
RECURSIVE AfterLastSlash(_)
AfterLastSlash(s) ==
    IF s = <<>> THEN <<>>
    ELSE IF s[Len(s)] = "/" THEN <<>>
    ELSE Append(AfterLastSlash(SubSeq(s, 1, Len(s) - 1)), s[Len(s)])

\* short_hash: the first 12 hex digits of the SHA-1 of the value. Modelled
\* by a marker followed by the value's letters and digits: deterministic,
\* made of filename characters, and distinct for the URLs of the model.
short_hash(value) ==
    <<"h">> \o SelectSeq(value, LAMBDA c : c \in LowerLetters \cup Digits)

infer_name_from_url(url) ==
    LET candidate == AfterLastSlash(RStrip(TakeUntil(url, {"?"}), {"/"}))
    IN IF candidate = <<>> THEN <<"a","t","t","a","c","h","m","e","n","t">>
       ELSE candidate

\* re.sub(r"[^A-Za-z0-9._-]+", "_", name): every maximal run of other
\* characters becomes one underscore.
RECURSIVE CollapseOther(_, _)
CollapseOther(s, inRun) ==
    IF s = <<>> THEN <<>>
    ELSE IF Head(s) \in FilenameChars THEN <<Head(s)>> \o CollapseOther(Tail(s), FALSE)
    ELSE IF inRun THEN CollapseOther(Tail(s), TRUE)
    ELSE <<"_">> \o CollapseOther(Tail(s), TRUE)

Truncate(s, n) == IF Len(s) > n THEN SubSeq(s, 1, n) ELSE s

\* .replace(" ", "_")
SpacesToUnderscores(s) == [i \in 1..Len(s) |-> IF s[i] = " " THEN "_" ELSE s[i]]

\* `if not name: name = f"attachment_{short_hash(url)}"`
OrAttachmentName(name, url) ==
    IF name = <<>>
    THEN <<"a","t","t","a","c","h","m","e","n","t","_">> \o short_hash(url)
    ELSE name

sanitize_filename(name, url) ==
    Truncate(
        OrAttachmentName(
            Strip(CollapseOther(
                    SpacesToUnderscores(IF name = <<>> THEN infer_name_from_url(url) ELSE name),
                    FALSE),
                  {".", "_"}),
            url),
        MaxFilenameLen)

\* re.search(r"\.([a-z0-9]+)(?:$|[?#)\s])", value): group(1) of the leftmost
\* match, <<>> when nothing matches. The run of [a-z0-9] after a dot matches
\* only when taken whole and followed by the end or by one of ? # ) or
\* whitespace.
RECURSIVE AlnumRun(_)
AlnumRun(s) ==
    IF s = <<>> \/ Head(s) \notin LowerLetters \cup Digits THEN <<>>
    ELSE <<Head(s)>> \o AlnumRun(Tail(s))

RECURSIVE ExtensionMatch(_)
ExtensionMatch(value) ==
    IF value = <<>> THEN <<>>
    ELSE IF Head(value) = "."
         THEN LET run == AlnumRun(Tail(value))
                  rest == SubSeq(value, Len(run) + 2, Len(value))
              IN IF run # <<>> /\ (rest = <<>> \/ Head(rest) \in {"?", "#", ")"} \cup Whitespace)
                 THEN run
                 ELSE ExtensionMatch(Tail(value))
         ELSE ExtensionMatch(Tail(value))

ExtensionSubject(filename, source_url) == LowerChars(filename \o <<" ">> \o source_url)

\* Mutation: no extension is blocked.
is_blocked_media_never(filename, source_url) == FALSE

is_blocked_media(filename, source_url) ==
    ExtensionMatch(ExtensionSubject(filename, source_url)) \in BLOCKED_MEDIA_EXTENSIONS

\* The type of an extension (<<>>: no extension was found).
ExtensionType(extension) ==
    IF extension = <<>> THEN "file"
    ELSE IF extension \in BLOCKED_MEDIA_EXTENSIONS THEN "blocked"
    ELSE IF extension \in IMAGE_EXTENSIONS THEN "image"
    ELSE IF extension \in PDF_EXTENSIONS THEN "pdf"
    ELSE "file"

infer_attachment_type(filename, source_url) ==
    ExtensionType(ExtensionMatch(ExtensionSubject(filename, source_url)))

\* An attachment dict is [id, filename, url : character sequences,
\* type : the declared MIME type, size : the declared size (NoSize when the
\* dict holds no number), thumbs : whether it carries thumbnails,
\* bytes : the length of the content the URL serves].
NoSize == -1

\* normalize_text(type).lower().startswith("image/")
DeclaredImage(type) == type \in {"image/png", "image/jpeg", "IMAGE/PNG", "image/tiff"}
DeclaredPdf(type) == type \in {"application/pdf", "Application/PDF"}

classify_attachment_type(attachment, filename, source_url) ==
    IF DeclaredImage(attachment.type) THEN "image"
    ELSE IF DeclaredPdf(attachment.type) THEN "pdf"
    ELSE IF attachment.thumbs THEN "image"
    ELSE infer_attachment_type(filename, source_url)

\* format_attachments, lines 878-886: the names derived from an attachment.
SourceUrl(attachment) == Strip(attachment.url, Whitespace)

Filename(attachment, source_url) ==
    sanitize_filename(Strip(attachment.filename, Whitespace), source_url)

\* `x or short_hash(source_url)` for the stripped id x
OrShortHash(x, source_url) == IF x # <<>> THEN x ELSE short_hash(source_url)

AttachmentId(attachment, source_url) ==
    OrShortHash(Strip(attachment.id, Whitespace), source_url)

LocalName(attachment, source_url, filename) ==
    AttachmentId(attachment, source_url) \o <<"_">> \o filename

LocalOf(attachment, source_url) ==
    LocalName(attachment, source_url, Filename(attachment, source_url))

LocalFilename(attachment) == LocalOf(attachment, SourceUrl(attachment))

\* ------------------------------------------------------------ media directory
\* The media directory is a set of files [name, size].
\* Mutation: no file is found.
FileExistsNever(media, name) == FALSE

FileExists(media, name) == \E f \in media : f.name = name
RemoveFile(media, name) == {f \in media : f.name # name}
PutFile(media, name, size) == RemoveFile(media, name) \cup {[name |-> name, size |-> size]}
FileNames(media) == {f.name : f \in media}

\* What one attempt of download_binary meets: the whole content arrives;
\* urlopen raises HTTPError with a 5xx code, or with another code; urlopen
\* raises URLError; the connection breaks while the content is copied (an
\* OSError that is neither HTTPError nor URLError).
AttemptAnswers == {"ok", "http_5xx", "http_4xx", "url_error", "broken"}

\* temporary_path = path.with_suffix(f"{path.suffix}.tmp")
TemporaryName(local_filename) == local_filename \o <<".","t","m","p">>

\* temporary_path.replace(path)
Replaced(media, local_filename) ==
    PutFile(RemoveFile(media, TemporaryName(local_filename)), local_filename,
            (CHOOSE f \in media : f.name = TemporaryName(local_filename)).size)

\* The try block of one attempt (lines 962-967): the content is copied to
\* the temporary path and renamed; a broken copy leaves a part of it there.
Attempted(media, attachment, local_filename, answer) ==
    CASE answer = "ok" ->
            Replaced(PutFile(media, TemporaryName(local_filename), attachment.bytes),
                     local_filename)
      [] answer = "broken" ->
            PutFile(media, TemporaryName(local_filename), attachment.bytes \div 2)
      [] OTHER -> media

\* Mutation: the temporary path is left alone.
CleanedNever(media, local_filename) == media

\* The finally block of an attempt (lines 981-983).
Cleaned(media, local_filename) == RemoveFile(media, TemporaryName(local_filename))

\* Mutation: any HTTP error is followed by another attempt.
RetriedAnyHttpError(answer, attempt) ==
    attempt < DownloadAttempts /\ answer \in {"http_5xx", "http_4xx", "url_error"}

\* The except blocks (lines 970-980): the attempt is followed by another.
Retried(answer, attempt) ==
    attempt < DownloadAttempts /\ answer \in {"http_5xx", "url_error"}

\* The loop of download_binary from one attempt on. answers[i] is what
\* attempt i meets. The result is the directory, the answers met and
\* whether the call raised.
RECURSIVE Attempts(_, _, _, _, _)
Attempts(media, attachment, local_filename, answers, attempt) ==
    LET Ends(after) ==
            IF answers[attempt] = "ok"
            THEN [media |-> after, answers |-> SubSeq(answers, 1, attempt),
                  raised |-> FALSE]
            ELSE IF Retried(answers[attempt], attempt)
            THEN Attempts(after, attachment, local_filename, answers, attempt + 1)
            ELSE [media |-> after, answers |-> SubSeq(answers, 1, attempt),
                  raised |-> TRUE]
    IN IF attempt > DownloadAttempts
       THEN [media |-> media, answers |-> answers, raised |-> FALSE]
       ELSE Ends(Cleaned(Attempted(media, attachment, local_filename, answers[attempt]),
                         local_filename))

download_binary(media, attachment, local_filename, answers) ==
    Attempts(media, attachment, local_filename, answers, 1)

\* The state format_attachments threads through its loop:
\*   media, used (used_media_files), budget (download_budget: <<>> for None,
\*   <<remaining>> otherwise), parts (output_parts), failed (a download
\*   raised), calls (download_binary calls of this step), net (what the
\*   attempts of the calls of this step meet: net.fail for the call that
\*   raises, net.pass for the others) and the history
\*   of the run: downloads issued, downloads kept, names that were not cached
\*   when resolved (need), names skipped for the budget (skipB), names
\*   resolved with a declared size, or a file, over the limit (over),
\*   names linked (linked).
\* Mutations of the budget rules.
BudgetExhaustedNever(budget) == FALSE
BudgetSpendNothing(budget) == budget

BudgetExhausted(budget) == budget # <<>> /\ budget[1] <= 0
BudgetSpend(budget) == IF budget # <<>> THEN <<budget[1] - 1>> ELSE budget

\* Mutation: every type is cached.
ShouldCacheAlways(cfg, attachment_type) == cfg.cache_media

ShouldCache(cfg, attachment_type) ==
    cfg.cache_media /\ (cfg.cache_media_types.none \/ attachment_type \in cfg.cache_media_types.types)

MaxMediaFileBytes(cfg) == cfg.max_media_file_mb * BytesPerMb

DeclaredOversize(cfg, attachment) ==
    attachment.size # NoSize /\ attachment.size > MaxMediaFileBytes(cfg)

MeasuredOversize(cfg, downloaded_size) == downloaded_size > MaxMediaFileBytes(cfg)

\* link_target = f"data/media/{local_filename}": the prefix of every link.
MediaPrefix == <<"d","a","t","a","/","m","e","d","i","a","/">>

\* The attachment is linked (lines 915-917). A file that was cached already
\* is linked whatever its size.
Linked(st, cfg, filename, local_filename) ==
    [st EXCEPT !.used = @ \cup {local_filename},
               !.parts = Append(@, [name |-> filename,
                                    target |-> MediaPrefix \o local_filename]),
               !.h.linked = @ \cup {local_filename},
               !.h.over = @ \cup {f.name : f \in {g \in st.media :
                                       /\ g.name = local_filename
                                       /\ MeasuredOversize(cfg, g.size)}}]

\* download_binary is called (line 904) and ends as `got`.
Called(st, got, local_filename) ==
    [st EXCEPT !.calls = @ + 1,
               !.media = got.media,
               !.h.last = [name |-> local_filename, answers |-> got.answers,
                           raised |-> got.raised],
               !.h.need = @ \cup {local_filename},
               !.h.downloads = @ + 1,
               !.h.again = @ \/ (local_filename \in st.h.fetched),
               !.h.fetched = @ \cup {local_filename}]

\* local_path.stat().st_size if local_path.exists() else 0
DownloadedSize(media, local_filename) ==
    IF FileExists(media, local_filename)
    THEN (CHOOSE f \in media : f.name = local_filename).size
    ELSE 0

\* Lines 905-914, after the call: the size of the file is measured, an
\* oversized file is deleted, any other is counted against the budget.
AfterDownload(called, cfg, ok, filename, local_filename) ==
    IF ~ok THEN [called EXCEPT !.failed = TRUE]
    ELSE IF MeasuredOversize(cfg, DownloadedSize(called.media, local_filename))
    THEN [called EXCEPT !.media = RemoveFile(@, local_filename),
                        !.h.over = @ \cup {local_filename}]
    ELSE [Linked(called, cfg, filename, local_filename) EXCEPT
             !.budget = BudgetSpend(@),
             !.h.kept = @ + 1]

\* Lines 904-914 once the call has ended as `got`.
Downloaded(st, got, cfg, filename, local_filename) ==
    AfterDownload(Called(st, got, local_filename), cfg, ~got.raised, filename,
                  local_filename)

\* Lines 901-914 for a file that is not cached. answers: what the attempts
\* of the call meet.
Download(st, attachment, cfg, answers, filename, local_filename) ==
    Downloaded(st, download_binary(st.media, attachment, local_filename, answers),
               cfg, filename, local_filename)

\* Lines 888-917, once the names are known.
ResolveNamed(st, attachment, cfg, failAt, source_url, filename, local_filename) ==
    IF st.failed THEN st
    ELSE IF source_url = <<>> THEN st
    ELSE IF is_blocked_media(filename, source_url) THEN st
    ELSE IF ~ShouldCache(cfg, classify_attachment_type(attachment, filename, source_url))
         THEN st
    ELSE IF DeclaredOversize(cfg, attachment)
         THEN [st EXCEPT !.h.over = @ \cup {local_filename}]
    ELSE IF ~FileExists(st.media, local_filename)
         THEN IF BudgetExhausted(st.budget)
              THEN [st EXCEPT !.h.need = @ \cup {local_filename},
                              !.h.skipB = @ \cup {local_filename}]
              ELSE Download(st, attachment, cfg,
                            IF st.calls + 1 = failAt THEN st.net.fail ELSE st.net.pass,
                            filename, local_filename)
    ELSE Linked(st, cfg, filename, local_filename)

ResolveFile(st, attachment, cfg, failAt, source_url, filename) ==
    ResolveNamed(st, attachment, cfg, failAt, source_url, filename,
                 LocalName(attachment, source_url, filename))

ResolveUrl(st, attachment, cfg, failAt, source_url) ==
    ResolveFile(st, attachment, cfg, failAt, source_url, Filename(attachment, source_url))

\* One iteration of format_attachments' loop. failAt is the download call of
\* this step that raises (0: none does).
ResolveAttachment(st, attachment, cfg, failAt) ==
    ResolveUrl(st, attachment, cfg, failAt, SourceUrl(attachment))

RECURSIVE ResolveAll(_, _, _, _)
ResolveAll(st, attachments, cfg, failAt) ==
    IF attachments = <<>> THEN st
    ELSE ResolveAll(ResolveAttachment(st, Head(attachments), cfg, failAt),
                    Tail(attachments), cfg, failAt)

\* format_attachments: the state after the loop; its parts are the cell.
format_attachments(st, attachments, cfg, failAt) ==
    ResolveAll([st EXCEPT !.parts = <<>>], attachments, cfg, failAt)

\* ",".join(output_parts): no part gives the empty text.
JoinParts(parts) == IF parts = <<>> THEN EmptyText ELSE VMedia(parts)

is_attachment_list(v) == v.k = "list" /\ v.l # <<>>

\* stringify_scalar / stringify_value on a value that is no attachment list.
stringify_scalar(v) ==
    CASE v.k = "none" -> EmptyText
      [] v.k = "bool" -> IF v.b THEN VStr("true") ELSE VStr("false")
      [] v.k = "num" -> NumText(v.n)
      [] v.k = "list" -> EmptyText
      [] OTHER -> v

\* record_to_csv_row: the row and the state after resolving the attachment
\* cells, header by header.
RECURSIVE RowCells(_, _, _, _, _, _)
RowCells(st, row, record, headers, cfg, failAt) ==
    IF headers = <<>> \/ st.failed THEN [st |-> st, row |-> row]
    ELSE LET header == Head(headers)
             AttachmentCell(after) ==
                 RowCells(after, row @@ (header :> JoinParts(after.parts)),
                          record, Tail(headers), cfg, failAt)
             Cell(value) ==
                 IF is_attachment_list(value)
                 THEN AttachmentCell(format_attachments(st, value.l, cfg, failAt))
                 ELSE RowCells(st, row @@ (header :> stringify_scalar(value)),
                               record, Tail(headers), cfg, failAt)
         IN IF header = RECORD_ID_HEADER
            THEN RowCells(st, row @@ (header :> VStr(record.id)),
                          record, Tail(headers), cfg, failAt)
            ELSE Cell(FieldGet(record.fields, header, EmptyText))

EmptyRow == [h \in {} |-> EmptyText]

record_to_csv_row(st, record, headers, cfg, failAt) ==
    RowCells(st, EmptyRow, record, headers, cfg, failAt)

\* MEDIA_REFERENCE_PATTERN on one token: the characters after data/media/ up
\* to the first ")" "," or whitespace.
RECURSIVE MediaReference(_)
MediaReference(target) ==
    IF Len(target) <= Len(MediaPrefix) THEN <<>>
    ELSE IF SubSeq(target, 1, Len(MediaPrefix)) = MediaPrefix
         THEN TakeUntil(SubSeq(target, Len(MediaPrefix) + 1, Len(target)),
                        {")", ","} \cup Whitespace)
    ELSE MediaReference(Tail(target))

CellReferences(cell) ==
    IF cell.k = "media"
    THEN {MediaReference(cell.l[i].target) : i \in 1..Len(cell.l)} \ {<<>>}
    ELSE {}

extract_media_references_from_row(row) ==
    UNION {CellReferences(row[h]) : h \in DOMAIN row}

\* ---------------------------------------------------------------- CSV files
\* A CSV file is [exists, headers, rows]; a written row holds one text per
\* header (DictWriter: a missing key gives "", other keys are ignored).
NoFile == [exists |-> FALSE, headers |-> <<>>, rows |-> <<>>]

WrittenRow(headers, row) ==
    [h \in SeqRange(headers) |-> IF h \in DOMAIN row THEN row[h] ELSE EmptyText]

write_csv(headers, rows) ==
    [exists |-> TRUE, headers |-> headers,
     rows |-> [i \in 1..Len(rows) |-> WrittenRow(headers, rows[i])]]

\* The rows of a dict keyed by record id, in insertion order, are a sequence
\* of [id, row] with distinct ids.
RECURSIVE DictIndex(_, _)
DictIndex(d, id) ==
    IF d = <<>> THEN 0
    ELSE IF d[Len(d)].id = id THEN Len(d)
    ELSE DictIndex(SubSeq(d, 1, Len(d) - 1), id)

DictHas(d, id) == DictIndex(d, id) # 0
DictGet(d, id) == d[DictIndex(d, id)].row
DictSet(d, id, row) ==
    IF DictHas(d, id) THEN [d EXCEPT ![DictIndex(d, id)] = [id |-> id, row |-> row]]
    ELSE Append(d, [id |-> id, row |-> row])
DictPop(d, id) == SelectSeq(d, LAMBDA e : e.id # id)
DictValues(d) == [i \in 1..Len(d) |-> d[i].row]
DictKeys(d) == {d[i].id : i \in 1..Len(d)}

RowId(row) ==
    IF RECORD_ID_HEADER \in DOMAIN row THEN normalize_text(row[RECORD_ID_HEADER]).s ELSE ""

RECURSIVE ReadRows(_, _)
ReadRows(rows, d) ==
    IF rows = <<>> THEN d
    ELSE LET record_id == RowId(Head(rows))
         IN ReadRows(Tail(rows),
                IF record_id = "" THEN d ELSE DictSet(d, record_id, Head(rows)))

\* read_existing_rows_by_record_id: [headers, rows_by_id]
read_existing_rows_by_record_id(file) ==
    IF ~file.exists THEN [headers |-> <<>>, rows_by_id |-> <<>>]
    ELSE [headers |-> file.headers, rows_by_id |-> ReadRows(file.rows, <<>>)]

\* prune_stale_media
prune_stale_media_all(media, used_media_files) == {}
prune_stale_media(media, used_media_files) ==
    {f \in media : f.name \in used_media_files}

\* ------------------------------------------------------------- configuration
\* parse_cache_media_types on the raw option, given as its comma-separated
\* parts, stripped and lowered (<<"">> is the empty text): `none` stands for
\* the result None (every type is cached), `error` for ValueError.
parse_cache_media_types(parts) ==
    LET selected == {part \in SeqRange(parts) : part # ""}
        invalid == selected \ {"image", "pdf", "file"}
    IN IF parts = <<"">> THEN [none |-> TRUE, types |-> {}, error |-> FALSE]
       ELSE IF invalid # {} THEN [none |-> FALSE, types |-> {}, error |-> TRUE]
       ELSE [none |-> FALSE, types |-> selected, error |-> FALSE]

\* Mutation: no option is refused.
ConfigErrorNone(args) == FALSE

\* main, lines 293-305: the checks that end the run with exit code 2.
ConfigError(args) ==
    \/ (args.max_media_downloads # <<>> /\ args.max_media_downloads[1] < 0)
    \/ args.max_media_file_mb <= 0
    \/ parse_cache_media_types(args.cache_media_types).error

\* The run's settings as main passes them on.
RunConfig(args) ==
    [sync_mode |-> args.sync_mode,
     cache_media |-> ~args.no_cache_media,
     cache_media_types |-> parse_cache_media_types(args.cache_media_types),
     max_media_file_mb |-> args.max_media_file_mb]

\* ------------------------------------------------------------------ targets
\* Two of main's targets, in its order; each has its CSV and metadata file.
Targets == <<"events", "people">>
Datasets == SeqRange(Targets)
\* ExportTarget.preferred_headers (EVENTS_DEFAULT_HEADERS, shortened to the
\* columns the model's records use).
PreferredHeaders(d) == IF d = "events" THEN <<"Name", "Images">> ELSE <<>>

\* ----------------------------------------------------------------- metadata
\* The metadata file: the keys a later run reads. The sync mode and the
\* counts are written and never read back: the run's history keeps them
\* (hist.wrote). The generation time, the dataset's ids and the media
\* counters are left out. A missing file reads as {} and every get() gives
\* None.
NoMeta == [published_field |-> VNone, last_modified_field |-> VNone,
           sync_cursor_utc |-> VNone]

\* The keys of the metadata file that no run reads back, as the run wrote
\* them.
NotWritten == [sync_mode |-> "", record_count |-> 0, changed_records |-> 0]

\* --------------------------------------------------------- the remote tables
\* Airtable's evaluation of the formulas the script builds.
\* {field}: the field's value as a condition.
FormulaTruthy(record, field) == is_published(FieldGet(record.fields, field, VNone))

\* build_published_formula: {published_field}
MatchesPublishedFormula(record, published_field) == FormulaTruthy(record, published_field)

\* build_delta_formula: OR(IS_AFTER({last_modified_field}, DATETIME_PARSE(cursor)),
\* NOT({published_field})), without the second clause when no published
\* field is known.
MatchesDeltaFormula(record, last_modified_field, published_field, cursor_utc) ==
    LET modified == parse_iso_datetime(FieldGet(record.fields, last_modified_field, VNone))
        cursor == parse_iso_datetime(cursor_utc)
    IN \/ (modified # NoInstant /\ cursor # NoInstant /\ modified > cursor)
       \/ (published_field # "" /\ ~FormulaTruthy(record, published_field))

\* fetch_all_records when every page arrives: the records of the view that
\* match the filter, pages concatenated.
FetchFull(records, published_field) ==
    IF published_field = "" THEN records
    ELSE SelectSeq(records, LAMBDA r : MatchesPublishedFormula(r, published_field))

FetchDelta(records, last_modified_field, published_field, cursor_utc) ==
    SelectSeq(records, LAMBDA r :
        MatchesDeltaFormula(r, last_modified_field, published_field, cursor_utc))

\* -------------------------------------------------------------------- state
VARIABLES
    scenario,   \* which tables and options the environment draws from
    clock,      \* the wall clock (datetime.now)
    remote,     \* remote[d]: the records of d's view, in view order
    csv,        \* csv[d]: target.output_csv
    meta,       \* meta[d]: target.metadata_path
    media,      \* media_dir
    pc,         \* where main stands
    cfg,        \* the run's settings
    ti,         \* index of the target in main's loop
    used,       \* used_media_files
    budget,     \* download_budget: <<>> (None) or <<remaining>>
    work,       \* the locals of refresh_target_delta / refresh_target_full
    h,          \* history of the attachment cache (see ResolveAttachment)
    hist        \* history of the run, per dataset

vars == <<scenario, clock, remote, csv, meta, media, pc, cfg, ti, used, budget, work, h, hist>>

NoWork == [d |-> "", records |-> <<>>, idx |-> 0, headers |-> <<>>, rows_by_id |-> <<>>,
           rows |-> <<>>, changed_count |-> 0, published_field |-> "",
           last_modified_field |-> "", previous_cursor |-> EmptyText,
           existing_headers |-> <<>>]

NoArgs == [sync_mode |-> "delta", no_cache_media |-> FALSE,
           cache_media_types |-> <<"image">>, max_media_downloads |-> <<>>,
           max_media_file_mb |-> 95]

\* History of one run: fetched holds the names a download was issued for,
\* again whether one was issued for a name a second time.
\* last is the latest call of download_binary: the name it was to write,
\* the answers its attempts met and whether it raised.
NoDownload == [name |-> <<>>, answers |-> <<>>, raised |-> FALSE]

NoHistory ==
    [downloads |-> 0, kept |-> 0, need |-> {}, skipB |-> {}, over |-> {},
     linked |-> {}, fetched |-> {}, again |-> FALSE, last |-> NoDownload]

\* A network on which a download works at once, or is refused at once.
CalmNet == [fail |-> <<"http_4xx", "ok", "ok">>, pass |-> <<"ok", "ok", "ok">>]

NoHist ==
    [wrote |-> [d \in Datasets |-> NotWritten], \* the sync that completed
     reason |-> [d \in Datasets |-> ""],       \* why delta was given up
     answer |-> [d \in Datasets |-> ""],       \* the remote's answer to the delta fetch
     deltaFetch |-> [d \in Datasets |-> 0],    \* delta fetches issued
     requests |-> [d \in Datasets |-> <<>>],   \* the requests of the full fetch just
                                               \* made (the field of their filter, the
                                               \* answer), until the next step
     before |-> [d \in Datasets |-> NoMeta],   \* the metadata the run found
     stableFull |-> [d \in Datasets |-> FALSE],\* full sync repeated on an unchanged view
     oldFile |-> [d \in Datasets |-> NoFile],  \* the CSV file the run found
     sinceFull |-> [d \in Datasets |-> <<>>],  \* <<settings>> of the last sync when it
                                               \* was full and the view and the media
                                               \* directory are as it left them
     args |-> NoArgs,                          \* the options of the run
     dir0 |-> {},                              \* the files cached when it started
     prune_media |-> FALSE,                    \* --prune-media
     prunes |-> 0,                             \* prune_stale_media calls
     pruned |-> {},                            \* the files the prune deleted
     exit |-> 0]                               \* main's exit code (1: traceback)

\* sinceFull outlives the run.
NewRunHist(old) == [NoHist EXCEPT !.sinceFull = old.sinceFull]

\* The options that bear on the rows a sync writes.
Settings(args) == [args EXCEPT !.sync_mode = ""]

Ended == {"done", "aborted", "rejected"}

Target == Targets[ti]

CacheState == [media |-> media, used |-> used, budget |-> budget, parts |-> <<>>,
               failed |-> FALSE, calls |-> 0, net |-> CalmNet, h |-> h]

RECURSIVE CountAttachments(_)
CountAttachments(fields) ==
    IF fields = <<>> THEN 0
    ELSE (IF Head(fields).val.k = "list" THEN Len(Head(fields).val.l) ELSE 0)
         + CountAttachments(Tail(fields))

\* ------------------------------------------------------------------ actions
\* main, lines 284-307 and 374: the options are checked, then the loop over
\* the targets starts with an empty in-use set and the whole budget.
StartRun(args) ==
    /\ pc = "idle"
    /\ clock' = IF clock < MaxClock THEN clock + 1 ELSE clock
    /\ IF ConfigError(args)
       THEN /\ pc' = "rejected"
            /\ hist' = [hist EXCEPT !.exit = 2, !.args = args]
            /\ UNCHANGED <<cfg, ti, used, budget, h>>
       ELSE /\ pc' = "target"
            /\ cfg' = RunConfig(args)
            /\ ti' = 1
            /\ used' = {}
            /\ budget' = args.max_media_downloads
            /\ h' = NoHistory
            /\ hist' = [hist EXCEPT !.args = args, !.dir0 = FileNames(media)]
    /\ work' = NoWork
    /\ UNCHANGED <<scenario, remote, csv, meta, media>>

\* Mutation: the scan reads no reference.
ExistingReferencesNone(rows_by_id) == {}

\* The scan of the existing rows in refresh_target_delta, lines 491-499.
ExistingReferences(rows_by_id) ==
    UNION {extract_media_references_from_row(rows_by_id[i].row) : i \in 1..Len(rows_by_id)}

\* Mutation: the scan finds every file.
MissingCachedFilesNone(rows_by_id, dir) == {}

MissingCachedFiles(rows_by_id, dir) ==
    {<<i, name>> \in (1..Len(rows_by_id)) \X ExistingReferences(rows_by_id) :
        /\ name \in extract_media_references_from_row(rows_by_id[i].row)
        /\ ~FileExists(dir, name)}

\* refresh_target, lines 414-437, with refresh_target_delta up to its fetch,
\* lines 468-509: the files are read and delta is taken or given up.
BeginTarget ==
    /\ pc = "target"
    /\ LET d == Target
           previous_metadata == meta[d]
           existing == read_existing_rows_by_record_id(csv[d])
           previous_cursor == normalize_text(previous_metadata.sync_cursor_utc)
           published_field ==
               resolve_known_field_name(previous_metadata, existing.headers,
                   PUBLISHED_FIELD_CANDIDATES, "published_field")
           last_modified_field ==
               resolve_known_field_name(previous_metadata, existing.headers,
                   LAST_MODIFIED_FIELD_CANDIDATES, "last_modified_field")
           scanned == used \cup ExistingReferences(existing.rows_by_id)
           missing == IF cfg.cache_media
                      THEN MissingCachedFiles(existing.rows_by_id, media) ELSE {}
           reason ==
               IF cfg.sync_mode # "delta" THEN "mode"
               ELSE IF existing.rows_by_id = <<>> \/ RECORD_ID_HEADER \notin SeqRange(existing.headers)
                    THEN "no_rows"
               ELSE IF ~Truthy(previous_cursor) THEN "no_cursor"
               ELSE IF last_modified_field = "" THEN "no_last_modified"
               ELSE IF missing # {} THEN "missing_cache"
               ELSE ""
       IN /\ hist' = [hist EXCEPT !.reason[d] = reason,
                                  !.before[d] = previous_metadata]
          /\ used' = IF reason \in {"", "missing_cache"} THEN scanned ELSE used
          /\ IF reason = ""
             THEN /\ pc' = "delta_fetch"
                  /\ work' = [NoWork EXCEPT !.d = d,
                                            !.headers = existing.headers,
                                            !.rows_by_id = existing.rows_by_id,
                                            !.published_field = published_field,
                                            !.last_modified_field = last_modified_field,
                                            !.previous_cursor = previous_cursor]
             ELSE /\ pc' = "full_fetch"
                  /\ work' = NoWork
    /\ UNCHANGED <<scenario, clock, remote, csv, meta, media, cfg, ti, budget, h>>

\* Mutation: no failure is taken for an unknown field.
is_unknown_field_error_never(outcome) == FALSE

\* is_unknown_field_error on the failure of a fetch: the remote names an
\* unknown field in its message.
is_unknown_field_error(outcome) == outcome = "unknown_field"

\* refresh_target_delta, lines 505-526: the fetch of the changed records.
\* The remote answers, rejects the filter for naming an unknown field, or
\* fails otherwise.
DeltaFetch(outcome) ==
    /\ pc = "delta_fetch"
    /\ LET d == Target
       IN /\ hist' = [hist EXCEPT !.deltaFetch[d] = @ + 1,
                                  !.answer[d] = outcome,
                                  !.reason[d] = IF outcome # "ok" /\ is_unknown_field_error(outcome)
                                                THEN "unknown_field" ELSE @,
                                  !.exit = IF outcome # "ok" /\ ~is_unknown_field_error(outcome)
                                           THEN 1 ELSE @]
          /\ CASE outcome = "ok" ->
                    /\ pc' = "delta_loop"
                    /\ work' = [work EXCEPT
                          !.records = FetchDelta(remote[d], work.last_modified_field,
                                                 work.published_field, work.previous_cursor),
                          !.idx = 1,
                          !.existing_headers = work.headers,
                          !.headers = ensure_record_id_header(work.headers),
                          !.changed_count = 0]
               [] is_unknown_field_error(outcome) ->
                    /\ pc' = "full_fetch"
                    /\ work' = NoWork
               [] OTHER ->
                    /\ pc' = "aborted"
                    /\ work' = NoWork
    /\ UNCHANGED <<scenario, clock, remote, csv, meta, media, cfg, ti, used, budget, h>>

\* Mutation: nothing is released.
ReleaseOldRowKeep(in_use, rows_by_id, record_id) == in_use

\* The in-use set after the old row of an updated record is released
\* (refresh_target_delta, lines 540-542).
ReleaseOldRow(in_use, rows_by_id, record_id) ==
    IF DictHas(rows_by_id, record_id)
    THEN in_use \ extract_media_references_from_row(DictGet(rows_by_id, record_id))
    ELSE in_use

\* Mutation: an unpublished record is upserted like any other.
DeltaDeletesNever(published_field, record) == FALSE

\* Whether the delta loop deletes the record's row (line 544).
DeltaDeletes(published_field, record) ==
    published_field # "" /\ ~is_published(FieldGet(record.fields, published_field, VNone))

\* Mutation: the loop ends with the first target.
AfterTargetEnds ==
    /\ pc' = "finish"
    /\ ti' = ti

\* Where main goes once a target is written: the next target, or the end
\* of the loop.
AfterTarget ==
    /\ pc' = IF ti < Len(Targets) THEN "target" ELSE "finish"
    /\ ti' = IF ti < Len(Targets) THEN ti + 1 ELSE ti

\* One iteration of the loop of refresh_target_delta, lines 528-560.
DeltaRecord(failAt, net) ==
    /\ pc = "delta_loop"
    /\ work.idx <= Len(work.records)
    /\ LET d == Target
           record == work.records[work.idx]
           record_id == record.id
           headers == merge_headers(work.headers, FieldKeys(record.fields), PreferredHeaders(d))
           released == ReleaseOldRow(used, work.rows_by_id, record_id)
           made == record_to_csv_row([CacheState EXCEPT !.used = released, !.net = net],
                                     record, headers, cfg, failAt)
       IN /\ failAt \in 0..CountAttachments(record.fields)
          /\ IF record_id = ""
             THEN /\ failAt = 0
                  /\ work' = [work EXCEPT !.idx = @ + 1]
                  /\ UNCHANGED <<pc, used, media, budget, h, hist>>
             ELSE IF DeltaDeletes(work.published_field, record)
             THEN /\ failAt = 0
                  /\ work' = [work EXCEPT !.idx = @ + 1,
                                          !.headers = headers,
                                          !.rows_by_id = DictPop(@, record_id),
                                          !.changed_count = @ + 1]
                  /\ used' = released
                  /\ UNCHANGED <<pc, media, budget, h, hist>>
             ELSE /\ (failAt # 0 => made.st.failed)
                  /\ (made.st.failed => made.st.calls = failAt)
                  /\ used' = made.st.used
                  /\ media' = made.st.media
                  /\ budget' = made.st.budget
                  /\ h' = made.st.h
                  /\ IF made.st.failed
                     THEN /\ pc' = "aborted"
                          /\ work' = NoWork
                          /\ hist' = [hist EXCEPT !.exit = 1]
                     ELSE /\ work' = [work EXCEPT !.idx = @ + 1,
                                                  !.headers = headers,
                                                  !.rows_by_id = DictSet(@, record_id, made.row),
                                                  !.changed_count = @ + 1]
                          /\ UNCHANGED <<pc, hist>>
    /\ UNCHANGED <<scenario, clock, remote, csv, meta, cfg, ti>>

\* Mutation: the cursor follows the fetched records alone.
DeltaCursorChangedOnly(previous_cursor, changed_cursor, now) ==
    IF Truthy(changed_cursor) THEN changed_cursor ELSE isoformat(now)

\* The cursor a delta sync writes (lines 573-574).
DeltaCursor(previous_cursor, changed_cursor, now) ==
    LET latest == latest_timestamp_iso(<<previous_cursor, changed_cursor>>)
    IN IF Truthy(latest) THEN latest ELSE isoformat(now)

\* refresh_target_delta, lines 562-602: the CSV file and the metadata are
\* written.
DeltaCommit ==
    /\ pc = "delta_loop"
    /\ work.idx > Len(work.records)
    /\ LET d == Target
           rows == DictValues(work.rows_by_id)
           discovered_lm == discover_field_name_from_records(work.records,
                                LAST_MODIFIED_FIELD_CANDIDATES)
           updated_last_modified_field ==
               IF discovered_lm = "" THEN work.last_modified_field ELSE discovered_lm
           discovered_pub == discover_field_name_from_records(work.records,
                                PUBLISHED_FIELD_CANDIDATES)
           updated_published_field ==
               IF discovered_pub = "" THEN work.published_field ELSE discovered_pub
           changed_cursor == compute_max_modified_cursor(work.records,
                                updated_last_modified_field)
           sync_cursor == DeltaCursor(work.previous_cursor, changed_cursor, clock)
       IN /\ csv' = [csv EXCEPT ![d] = write_csv(work.headers, rows)]
          /\ meta' = [meta EXCEPT ![d] =
                [published_field |-> VStr(updated_published_field),
                 last_modified_field |-> VStr(updated_last_modified_field),
                 sync_cursor_utc |-> sync_cursor]]
          /\ hist' = [hist EXCEPT !.wrote[d] = [sync_mode |-> "delta",
                                                 record_count |-> Len(rows),
                                                 changed_records |-> work.changed_count],
                                  !.oldFile[d] = csv[d],
                                  !.sinceFull[d] = <<>>]
    /\ AfterTarget
    /\ UNCHANGED <<scenario, clock, remote, media, cfg, used, budget, work, h>>

\* Mutation: nothing is filtered.
PublishedRecordsAll(records, published_field) == records

\* The records a full sync keeps (refresh_target_full, lines 653-655).
PublishedRecords(records, published_field) ==
    IF published_field = "" THEN records
    ELSE SelectSeq(records, LAMBDA r :
            is_published(FieldGet(r.fields, published_field, VNone)))

\* Mutation: the published field of the metadata outlives the retry.
PublishedFieldKept(retried, previous_published_field) == previous_published_field

\* previous_published_field after the fetch (line 645): given up when the
\* fetch was retried without filter.
PublishedFieldAfterFetch(retried, previous_published_field) ==
    IF retried THEN "" ELSE previous_published_field

\* refresh_target_full, lines 618-658: the fetch, with one retry without
\* filter when the filter names an unknown field, then field discovery, the
\* published filter and the headers. first and retry are the remote's
\* answers to the two requests.
FullFetch(first, retry) ==
    /\ pc = "full_fetch"
    /\ LET d == Target
           previous_published_field ==
               resolve_known_field_name(meta[d], <<>>, PUBLISHED_FIELD_CANDIDATES,
                                        "published_field")
           filtered == previous_published_field # ""
           retried == first # "ok" /\ is_unknown_field_error(first) /\ filtered
           fails == IF retried THEN retry # "ok" ELSE first # "ok"
           fetched == IF retried THEN remote[d]
                      ELSE FetchFull(remote[d], previous_published_field)
           assumed == PublishedFieldAfterFetch(retried, previous_published_field)
           requests == <<[filter |-> previous_published_field, answer |-> first]>>
                       \o (IF retried THEN <<[filter |-> "", answer |-> retry]>> ELSE <<>>)
           discovered_published_field ==
               discover_field_name_from_records(fetched, PUBLISHED_FIELD_CANDIDATES)
           discovered_last_modified_field ==
               discover_field_name_from_records(fetched, LAST_MODIFIED_FIELD_CANDIDATES)
           published_field ==
               IF discovered_published_field # "" THEN discovered_published_field
               ELSE assumed
           records == PublishedRecords(fetched, published_field)
           headers == ensure_record_id_header(compute_headers(records, PreferredHeaders(d)))
       IN /\ (~retried => retry = "ok")
          /\ IF fails
             THEN /\ pc' = "aborted"
                  /\ work' = NoWork
                  /\ hist' = [hist EXCEPT !.exit = 1, !.requests[d] = requests]
             ELSE /\ pc' = "full_loop"
                  /\ hist' = [hist EXCEPT !.requests[d] = requests]
                  /\ work' = [NoWork EXCEPT !.d = d,
                                            !.records = records,
                                            !.idx = 1,
                                            !.headers = headers,
                                            !.published_field = published_field,
                                            !.last_modified_field = discovered_last_modified_field]
    /\ UNCHANGED <<scenario, clock, remote, csv, meta, media, cfg, ti, used, budget, h>>

\* Mutation: the rows made so far are written when the loop fails.
FileAfterFailureWritten(file, headers, rows) == write_csv(headers, rows)

\* The output file when a download fails in the loop of refresh_target_full:
\* the exception leaves the function before write_csv (line 674) is reached.
FileAfterFailure(file, headers, rows) == file

\* One iteration of the loop of refresh_target_full, lines 661-672.
FullRecord(failAt, net) ==
    /\ pc = "full_loop"
    /\ work.idx <= Len(work.records)
    /\ LET record == work.records[work.idx]
           made == record_to_csv_row([CacheState EXCEPT !.net = net], record,
                                     work.headers, cfg, failAt)
       IN /\ failAt \in 0..CountAttachments(record.fields)
          /\ (failAt # 0 => made.st.failed)
          /\ (made.st.failed => made.st.calls = failAt)
          /\ used' = made.st.used
          /\ media' = made.st.media
          /\ budget' = made.st.budget
          /\ h' = made.st.h
          /\ IF made.st.failed
             THEN /\ pc' = "aborted"
                  /\ work' = NoWork
                  /\ hist' = [hist EXCEPT !.exit = 1, !.requests[work.d] = <<>>]
                  /\ csv' = [csv EXCEPT ![work.d] =
                                FileAfterFailure(@, work.headers, work.rows)]
             ELSE /\ work' = [work EXCEPT !.idx = @ + 1, !.rows = Append(@, made.row)]
                  /\ hist' = [hist EXCEPT !.requests[work.d] = <<>>]
                  /\ UNCHANGED <<pc, csv>>
    /\ UNCHANGED <<scenario, clock, remote, meta, cfg, ti>>

\* The cursor a full sync writes (lines 676-678).
FullCursor(records, last_modified_field, now) ==
    LET sync_cursor == compute_max_modified_cursor(records, last_modified_field)
    IN IF Truthy(sync_cursor) THEN sync_cursor ELSE isoformat(now)

\* Mutation: the metadata counts no changed record.
FullCountsNoChange(rows) ==
    [sync_mode |-> "full", record_count |-> Len(rows), changed_records |-> 0]

\* The sync mode and the counts a full sync writes (lines 684, 691-692).
FullCounts(rows) ==
    [sync_mode |-> "full", record_count |-> Len(rows), changed_records |-> Len(rows)]

\* refresh_target_full, lines 674-706.
FullCommit ==
    /\ pc = "full_loop"
    /\ work.idx > Len(work.records)
    /\ LET d == Target
           sync_cursor == FullCursor(work.records, work.last_modified_field, clock)
       IN /\ csv' = [csv EXCEPT ![d] = write_csv(work.headers, work.rows)]
          /\ meta' = [meta EXCEPT ![d] =
                [published_field |-> VStr(work.published_field),
                 last_modified_field |-> VStr(work.last_modified_field),
                 sync_cursor_utc |-> sync_cursor]]
          /\ hist' = [hist EXCEPT !.wrote[d] = FullCounts(work.rows),
                                  !.stableFull[d] = (hist.sinceFull[d] = <<Settings(hist.args)>>),
                                  !.oldFile[d] = csv[d],
                                  !.sinceFull[d] = <<Settings(hist.args)>>,
                                  !.requests[d] = <<>>]
    /\ AfterTarget
    /\ UNCHANGED <<scenario, clock, remote, media, cfg, used, budget, work, h>>

\* main, lines 394-398: the prune, when asked for and caching is on.
\* prune_media is the --prune-media option, which main reads here only.
Finish(prune_media) ==
    /\ pc = "finish"
    /\ pc' = "done"
    /\ IF cfg.cache_media /\ prune_media
       THEN /\ media' = prune_stale_media(media, used)
            /\ hist' = [hist EXCEPT !.prunes = @ + 1, !.prune_media = prune_media,
                                    !.pruned = FileNames(media)
                                                \ FileNames(prune_stale_media(media, used))]
       ELSE /\ hist' = [hist EXCEPT !.prune_media = prune_media]
            /\ UNCHANGED media
    /\ UNCHANGED <<scenario, clock, remote, csv, meta, cfg, ti, used, budget, work, h>>

\* The environment edits the view of a dataset. An edit shows at the next
\* fetch only, so it is taken right before one.
RemoteChange(d, records) ==
    /\ pc \in {"delta_fetch", "full_fetch"}
    /\ d = Target
    /\ remote[d] # records
    /\ remote' = [remote EXCEPT ![d] = records]
    /\ hist' = [hist EXCEPT !.sinceFull[d] = <<>>]
    /\ UNCHANGED <<scenario, clock, csv, meta, media, pc, cfg, ti, used, budget, work, h>>

\* The process ends: its locals are gone, the files stay.
Exit ==
    /\ pc \in Ended
    /\ pc' = "idle"
    /\ cfg' = RunConfig(NoArgs)
    /\ ti' = 1
    /\ used' = {}
    /\ budget' = <<>>
    /\ work' = NoWork
    /\ h' = NoHistory
    /\ hist' = NewRunHist(hist)
    /\ UNCHANGED <<scenario, clock, remote, csv, meta, media>>

\* A cached file is lost between two runs (the cache is cleared by hand).
LoseMedia(name) ==
    /\ pc = "idle"
    /\ media' = RemoveFile(media, name)
    /\ hist' = [hist EXCEPT !.sinceFull = [d \in Datasets |-> <<>>]]
    /\ UNCHANGED <<scenario, clock, remote, csv, meta, pc, cfg, ti, used, budget, work, h>>

\* -------------------------------------------------------------- environment
\* The attachments, records and views the environment draws from.
Fld(key, val) == [key |-> key, val |-> val]

Attachment(id, filename, type, size, bytes) ==
    [id |-> id, filename |-> filename,
     url |-> <<"h",":","/","/","d","l","/">> \o id,
     type |-> type, size |-> size, thumbs |-> FALSE, bytes |-> bytes]

\* a small image with a declared size
Att1 == Attachment(<<"a","1">>, <<"x",".","p","n","g">>, "image/png", 500000, 500000)
\* an image known by its extension only; its name needs sanitising
Att2 == Attachment(<<"a","2">>, <<"y"," ","z",".","P","N","G">>, "", NoSize, 400000)
\* an image whose content is larger than any limit, with no declared size
AttFat == Attachment(<<"a","3">>, <<"f",".","p","n","g">>, "image/png", NoSize, 3000000)
\* an image declared larger than any limit
AttBig == Attachment(<<"a","4">>, <<"g",".","p","n","g">>, "image/png", 3000000, 3000000)
\* an image between the limits of 1 MB and 2 MB
AttMid == Attachment(<<"a","5">>, <<"m",".","p","n","g">>, "image/png", NoSize, 1500000)

\* A record: Airtable leaves out unchecked boxes and empty fields.
Rec(id, published, modified, attachments) ==
    [id |-> id,
     fields |-> <<Fld("Name", VStr("n"))>>
        \o (IF published THEN <<Fld("Published", VBool(TRUE))>> ELSE <<>>)
        \o (IF modified.k = "none" THEN <<>> ELSE <<Fld("Last Modified", modified)>>)
        \o (IF attachments = <<>> THEN <<>> ELSE <<Fld("Images", VList(attachments))>>)]

EngineViews(d) ==
    IF d = "events" THEN
      { \* the base view: three published records, two sharing an attachment
        << Rec("recA", TRUE, VTs(1, 0), <<Att1>>),
           Rec("recB", TRUE, VTs(2, 0), <<Att1>>),
           Rec("recC", TRUE, VTs(2, 0), <<>>) >>,
        \* B edited and moved up, C unpublished, a record without id, A as
        \* it was
        << Rec("recB", TRUE, VTs(4, 1), <<Att1>>),
           Rec("recC", FALSE, VTs(2, 0), <<>>),
           Rec("", TRUE, VTs(3, 0), <<>>),
           Rec("recA", TRUE, VTs(1, 0), <<Att1>>) >>,
        \* B and C unpublished, nothing else touched
        << Rec("recA", TRUE, VTs(1, 0), <<Att1>>),
           Rec("recB", FALSE, VTs(2, 0), <<Att1>>),
           Rec("recC", FALSE, VTs(2, 0), <<>>) >>,
        \* a table without last-modified field
        << Rec("recN", TRUE, VNone, <<>>) >> }
    ELSE
      { << Rec("recP", TRUE, VTs(1, 0), <<Att1>>) >>,
        << Rec("recP", TRUE, VTs(2, 0), <<>>) >> }

EngineArgs ==
    {[NoArgs EXCEPT !.sync_mode = mode, !.no_cache_media = nocache,
                    !.cache_media_types = <<"">>, !.max_media_file_mb = 1] :
        mode \in {"delta", "full"}, nocache \in BOOLEAN}
    \cup {[NoArgs EXCEPT !.max_media_file_mb = 0]}

\* Tables and options that exercise the attachment cache: a download
\* budget, two size limits, attachments over and under them.
CacheViews(d) ==
    IF d = "events" THEN
      { << Rec("recA", TRUE, VTs(1, 0), <<AttFat, Att1>>),
           Rec("recB", TRUE, VTs(2, 0), <<Att2, AttFat>>) >>,
        << Rec("recA", TRUE, VTs(1, 0), <<AttBig, AttMid>>),
           Rec("recU", FALSE, VTs(2, 0), <<>>) >> }
    ELSE
      { << Rec("recP", TRUE, VTs(1, 0), <<Att1>>) >> }

CacheArgs ==
    {[NoArgs EXCEPT !.sync_mode = mode, !.cache_media_types = <<"">>,
                    !.max_media_downloads = downloads, !.max_media_file_mb = mb] :
        mode \in {"delta", "full"},
        <<downloads, mb>> \in {<< <<>>, 1 >>, << <<>>, 2 >>, << <<1>>, 1 >>}}
    \cup {[NoArgs EXCEPT !.max_media_downloads = <<-1>>]}

\* a PDF with no declared size
AttPdf == Attachment(<<"a","7">>, <<"p",".","p","d","f">>, "application/pdf", NoSize, 300000)
\* a TIFF image, its extension in capitals
AttTif == Attachment(<<"a","8">>, <<"t",".","T","I","F">>, "image/tiff", 200000, 200000)

\* Tables and options that exercise the selection of what is cached: images,
\* a PDF, a blocked image, an oversized one; every kind of type selection
\* with caching on and off, a budget of one and of no download, and the
\* options main rejects.
SelectViews(d) ==
    IF d = "events" THEN
      { << Rec("recA", TRUE, VTs(1, 0), <<AttTif, Att1>>),
           Rec("recB", TRUE, VTs(2, 0), <<AttBig, AttPdf>>),
           Rec("recU", FALSE, VTs(2, 0), <<>>) >> }
    ELSE
      { << Rec("recP", TRUE, VTs(1, 0), <<Att1>>) >> }

SelectArgs ==
    {[NoArgs EXCEPT !.cache_media_types = types, !.no_cache_media = nocache,
                    !.max_media_downloads = <<1>>, !.max_media_file_mb = 1] :
        types \in {<<"">>, <<"image">>, <<"pdf">>, <<"", "">>}, nocache \in BOOLEAN}
    \cup {[NoArgs EXCEPT !.sync_mode = "full", !.cache_media_types = <<"image", "pdf">>,
                         !.max_media_downloads = <<0>>, !.max_media_file_mb = 1]}
    \cup {[NoArgs EXCEPT !.cache_media_types = <<"image", "video">>],
          [NoArgs EXCEPT !.max_media_file_mb = 0],
          [NoArgs EXCEPT !.max_media_downloads = <<-1>>]}

\* an image declared, and found, between the limits of 1 MB and 2 MB
AttDecl == Attachment(<<"a","6">>, <<"d",".","p","n","g">>, "image/png", 1500000, 1500000)

\* Tables and options that exercise the reuse of cached files: a run
\* without budget under a limit of 2 MB, then runs with no download left
\* under a limit of 1 MB.
ReuseViews(d) ==
    IF d = "events" THEN
      { << Rec("recA", TRUE, VTs(1, 0), <<AttDecl, Att1>>),
           Rec("recU", FALSE, VTs(2, 0), <<>>) >> }
    ELSE
      { << Rec("recP", TRUE, VTs(1, 0), <<Att1>>) >> }

ReuseArgs ==
    {[NoArgs EXCEPT !.cache_media_types = <<"">>, !.max_media_downloads = downloads,
                    !.max_media_file_mb = mb] :
        <<downloads, mb>> \in {<< <<>>, 2 >>, << <<0>>, 2 >>, << <<0>>, 1 >>}}

\* Tables, options and files that exercise the resolution of the role
\* fields. The run finds a CSV file of events and its metadata as an
\* earlier version of the script, or a hand, left them: columns that match
\* the candidates in another case, in another order, or not at all;
\* metadata with a cursor and with field names recorded, empty or missing,
\* and metadata whose cursor is no ISO text.
FieldsViews(d) ==
    IF d = "events" THEN
      { << Rec("recA", TRUE, VTs(2, 0), <<Att1>>),
           Rec("recU", FALSE, VTs(2, 0), <<>>) >>,
        \* the table after its published and last-modified fields were
        \* removed
        << Rec("recV", FALSE, VNone, <<>>) >> }
    ELSE
      { << Rec("recP", TRUE, VTs(1, 0), <<>>) >> }

FieldsArgs == {[NoArgs EXCEPT !.cache_media_types = <<"">>, !.max_media_file_mb = 1]}

FieldsHeaders ==
    { <<RECORD_ID_HEADER, "Name", "PUBLISHED", "LAST MODIFIED">>,
      <<RECORD_ID_HEADER, "Name", "Publish", "Is Published", "Last Modified Time",
        "Last Modified">>,
      <<RECORD_ID_HEADER, "Name">> }

FieldsFiles ==
    {write_csv(headers, << [name \in SeqRange(headers) |->
                              IF name = RECORD_ID_HEADER THEN VStr("recA") ELSE EmptyText] >>) :
        headers \in FieldsHeaders}

FieldsMetadata ==
    {[published_field |-> names[1], last_modified_field |-> names[2],
      sync_cursor_utc |-> VTs(1, 0)] :
        names \in { <<VNone, VNone>>, <<VStr("Shown"), VStr("Edited")>>,
                    <<VStr(""), VStr("Last Modified")>>, <<VStr("Published"), VStr("")>> }}
    \cup {[published_field |-> VStr("Published"), last_modified_field |-> VStr("Last Modified"),
           sync_cursor_utc |-> VStr("soon")]}

\* Tables, options and networks that exercise the attempts of a download:
\* every way three attempts can go.
DownloadViews(d) ==
    IF d = "events" THEN
      { << Rec("recA", TRUE, VTs(1, 0), <<Att1>>),
           Rec("recU", FALSE, VTs(2, 0), <<>>) >> }
    ELSE
      { << Rec("recP", TRUE, VTs(1, 0), <<Att2>>) >> }

DownloadArgs == {[NoArgs EXCEPT !.cache_media_types = <<"">>, !.max_media_file_mb = 1]}

DownloadNets ==
    {[fail |-> answers, pass |-> answers] :
        answers \in [1..DownloadAttempts -> AttemptAnswers]}

Nets == IF scenario = "download" THEN DownloadNets ELSE {CalmNet}

Views(d) ==
    CASE scenario = "engine" -> EngineViews(d)
      [] scenario = "cache" -> CacheViews(d)
      [] scenario = "select" -> SelectViews(d)
      [] scenario = "reuse" -> ReuseViews(d)
      [] scenario = "fields" -> FieldsViews(d)
      [] OTHER -> DownloadViews(d)

Args ==
    CASE scenario = "engine" -> EngineArgs
      [] scenario = "cache" -> CacheArgs
      [] scenario = "select" -> SelectArgs
      [] scenario = "reuse" -> ReuseArgs
      [] scenario = "fields" -> FieldsArgs
      [] OTHER -> DownloadArgs

FetchOutcomes == {"ok", "unknown_field", "error"}

\* ------------------------------------------------------------ specification
InitCommon ==
    /\ clock = LastEdit
    /\ remote = [d \in Datasets |-> <<>>]
    /\ csv = [d \in Datasets |-> NoFile]
    /\ meta = [d \in Datasets |-> NoMeta]
    /\ media = {}
    /\ pc = "idle"
    /\ cfg = RunConfig(NoArgs)
    /\ ti = 1
    /\ used = {}
    /\ budget = <<>>
    /\ work = NoWork
    /\ h = NoHistory
    /\ hist = NoHist

Init == scenario = "engine" /\ InitCommon

Next ==
    \/ \E args \in Args : StartRun(args)
    \/ \E d \in Datasets : \E records \in Views(d) : RemoteChange(d, records)
    \/ BeginTarget
    \/ \E outcome \in FetchOutcomes : DeltaFetch(outcome)
    \/ \E failAt \in 0..3 : \E net \in Nets : DeltaRecord(failAt, net)
    \/ DeltaCommit
    \/ \E first \in FetchOutcomes : \E retry \in FetchOutcomes : FullFetch(first, retry)
    \/ \E failAt \in 0..3 : \E net \in Nets : FullRecord(failAt, net)
    \/ FullCommit
    \/ \E prune_media \in BOOLEAN : Finish(prune_media)
    \/ Exit
    \/ \E name \in FileNames(media) : LoseMedia(name)

Spec == Init /\ [][Next]_vars

\* The same program over the tables and options of the attachment cache.
InitCache == scenario = "cache" /\ InitCommon

SpecCache == InitCache /\ [][Next]_vars

\* The same program over the tables and options of the type selection.
InitSelect == scenario = "select" /\ InitCommon

SpecSelect == InitSelect /\ [][Next]_vars

\* The same program over the tables and options of the reuse of cached files.
InitReuse == scenario = "reuse" /\ InitCommon

SpecReuse == InitReuse /\ [][Next]_vars

\* The same program started on the files of the role fields.
InitFields ==
    /\ scenario = "fields"
    /\ clock = LastEdit
    /\ remote = [d \in Datasets |-> <<>>]
    /\ csv \in {[d \in Datasets |-> IF d = "events" THEN file ELSE NoFile] :
                    file \in FieldsFiles}
    /\ meta \in {[d \in Datasets |-> IF d = "events" THEN metadata ELSE NoMeta] :
                    metadata \in FieldsMetadata}
    /\ media = {}
    /\ pc = "idle"
    /\ cfg = RunConfig(NoArgs)
    /\ ti = 1
    /\ used = {}
    /\ budget = <<>>
    /\ work = NoWork
    /\ h = NoHistory
    /\ hist = NoHist

SpecFields == InitFields /\ [][Next]_vars

\* The same program over the tables and networks of the download attempts.
InitDownload == scenario = "download" /\ InitCommon

SpecDownload == InitDownload /\ [][Next]_vars

\* ------------------------------------------------------------------- claims
\* The UTC instant of the cursor a metadata file holds.
CursorInstant(m) == parse_iso_datetime(m.sync_cursor_utc)

\* The latest last-modified instant among the records the delta sync of the
\* run fetched, read under the last-modified field it wrote.
ChangedInstant(d) ==
    parse_iso_datetime(compute_max_modified_cursor(work.records,
                                                   meta[d].last_modified_field.s))

\* C1: whenever a run completes a dataset as a delta sync, the cursor it
\* writes to the metadata is not earlier, as a UTC instant, than the cursor
\* it found there (the one the run before wrote), whatever records and
\* last-modified values the remote returned.
C1_DeltaCursorMonotonic ==
    \A d \in Datasets :
        hist.wrote[d].sync_mode = "delta" =>
            /\ CursorInstant(hist.before[d]) # NoInstant
            /\ CursorInstant(meta[d]) >= CursorInstant(hist.before[d])

\* C1's case: a delta sync fetched records that were all modified before the
\* cursor it found (unpublished ones), and kept that cursor.
C1_Witness ==
    \E d \in Datasets :
        /\ hist.wrote[d].sync_mode = "delta"
        /\ work.d = d
        /\ work.records # <<>>
        /\ ChangedInstant(d) # NoInstant
        /\ ChangedInstant(d) < CursorInstant(hist.before[d])
        /\ CursorInstant(meta[d]) = CursorInstant(hist.before[d])

\* A delta sync of dataset d has just been written: its locals are still
\* there.
DeltaWritten(d) == hist.wrote[d].sync_mode = "delta" /\ work.d = d

\* The keyed row set the delta sync started from, and the identifiers of
\* the records it fetched.
ExistingRows(d) == read_existing_rows_by_record_id(hist.oldFile[d]).rows_by_id
FetchedIds == {work.records[i].id : i \in 1..Len(work.records)} \ {""}
FetchedPublished(i) ==
    is_published(FieldGet(work.records[i].fields, work.published_field, VNone))
WrittenIds(d) == {RowId(csv[d].rows[j]) : j \in 1..Len(csv[d].rows)}

\* The written row j is the recomputed row of record r: its identifier, the
\* text of every scalar field, and in an attachment cell tokens of the
\* record's own attachments only.
Recomputed(d, j, r) ==
    LET row == csv[d].rows[j]
    IN /\ RowId(row) = r.id
       /\ \A header \in DOMAIN row \ {RECORD_ID_HEADER} :
            LET value == FieldGet(r.fields, header, EmptyText)
            IN IF is_attachment_list(value)
               THEN CellReferences(row[header])
                        \subseteq {LocalFilename(value.l[a]) : a \in 1..Len(value.l)}
               ELSE row[header] = stringify_scalar(value)

\* C2: after a delta sync with a known published field, the written rows
\* are exactly (a) every existing row whose identifier was not fetched,
\* cell for cell, (b) one recomputed row for every fetched record with a
\* truthy published value, and (c) no row for a fetched record with a falsy
\* one; the changed count is the number of fetched records with a non-empty
\* identifier.
C2_DeltaMerge ==
    \A d \in Datasets :
        (DeltaWritten(d) /\ work.published_field # "") =>
            /\ \A e \in SeqRange(ExistingRows(d)) :
                 e.id \notin FetchedIds =>
                    /\ Cardinality({j \in 1..Len(csv[d].rows) :
                                        RowId(csv[d].rows[j]) = e.id}) = 1
                    /\ \E j \in 1..Len(csv[d].rows) :
                         csv[d].rows[j] = WrittenRow(csv[d].headers, e.row)
            /\ \A i \in 1..Len(work.records) :
                 (work.records[i].id # "" /\ FetchedPublished(i)) =>
                    /\ Cardinality({j \in 1..Len(csv[d].rows) :
                                        RowId(csv[d].rows[j]) = work.records[i].id}) = 1
                    /\ \E j \in 1..Len(csv[d].rows) : Recomputed(d, j, work.records[i])
            /\ \A i \in 1..Len(work.records) :
                 (work.records[i].id # "" /\ ~FetchedPublished(i)) =>
                    work.records[i].id \notin WrittenIds(d)
            /\ WrittenIds(d) =
                 {e.id : e \in {x \in SeqRange(ExistingRows(d)) : x.id \notin FetchedIds}}
                 \cup {work.records[i].id : i \in {k \in 1..Len(work.records) :
                            work.records[k].id # "" /\ FetchedPublished(k)}}
            /\ hist.wrote[d].changed_records =
                 Cardinality({i \in 1..Len(work.records) : work.records[i].id # ""})
            /\ hist.wrote[d].record_count = Len(csv[d].rows)

\* C2's case: of three existing rows one is left alone, one is fetched
\* updated and one is fetched unpublished; two rows are written and the
\* changed count is 2.
C2_Witness ==
    \E d \in Datasets :
        /\ DeltaWritten(d) /\ work.published_field # ""
        /\ Len(ExistingRows(d)) = 3
        /\ \E e \in SeqRange(ExistingRows(d)) : e.id \notin FetchedIds
        /\ \E i \in 1..Len(work.records) :
             /\ work.records[i].id \in DictKeys(ExistingRows(d))
             /\ FetchedPublished(i)
             /\ \E j \in 1..Len(csv[d].rows) :
                  /\ Recomputed(d, j, work.records[i])
                  /\ csv[d].rows[j] # WrittenRow(csv[d].headers,
                                                 DictGet(ExistingRows(d), work.records[i].id))
        /\ \E i \in 1..Len(work.records) :
             /\ work.records[i].id \in DictKeys(ExistingRows(d))
             /\ ~FetchedPublished(i)
        /\ Len(csv[d].rows) = 2
        /\ hist.wrote[d].changed_records = 2

\* The files the rows of the CSV files reference.
RowsReferences(file) ==
    UNION {extract_media_references_from_row(file.rows[j]) : j \in 1..Len(file.rows)}

ReferencedFiles == UNION {RowsReferences(csv[d]) : d \in Datasets}

\* C3: once every dataset of the run is processed and the prune has run, no
\* file the prune deleted is referenced by a row of the written row set of
\* any dataset: every referenced cached file is still in the media
\* directory, also when another row referencing it was updated or deleted
\* by a delta merge of this run.
C3_PruneKeepsReferenced ==
    (pc = "done" /\ hist.prunes > 0) =>
        /\ hist.pruned \cap ReferencedFiles = {}
        /\ \A name \in ReferencedFiles : FileExists(media, name)

\* The preconditions of a delta sync, on the output file and the metadata a
\* run finds: the file exists, has a row and the record-identifier column;
\* the metadata holds a non-empty cursor; a last-modified field is named by
\* the metadata or is one of the file's columns.
HasRowsAndIdColumn(file) ==
    file.exists /\ file.rows # <<>> /\ RECORD_ID_HEADER \in SeqRange(file.headers)

HasCursor(m) == m.sync_cursor_utc.k # "none" /\ m.sync_cursor_utc # EmptyText

LastModifiedResolvable(m, file) ==
    \/ (m.last_modified_field.k # "none" /\ m.last_modified_field # EmptyText)
    \/ \E i \in 1..Len(file.headers) : \E c \in 1..Len(LAST_MODIFIED_FIELD_CANDIDATES) :
          LowerName(file.headers[i]) = LowerName(LAST_MODIFIED_FIELD_CANDIDATES[c])

FilePreconditions(file, m) ==
    HasRowsAndIdColumn(file) /\ HasCursor(m) /\ LastModifiedResolvable(m, file)

\* With caching on, every file the existing rows reference is cached.
CachePrecondition(file, dir) ==
    cfg.cache_media => RowsReferences(file) \subseteq FileNames(dir)

\* C4: a dataset is synced in delta mode only if the sync mode is delta, the
\* output file exists with a row and the record-identifier column, the
\* metadata holds a cursor, a last-modified field is resolvable and, with
\* caching on, every media reference of the existing rows is in the media
\* directory; a dataset for which one of these fails is synced in full mode
\* by the same run.
C4_DeltaOnlyWhenEligible ==
    /\ pc = "delta_fetch" =>
          /\ cfg.sync_mode = "delta"
          /\ FilePreconditions(csv[Target], meta[Target])
          /\ CachePrecondition(csv[Target], media)
    /\ (pc \in {"delta_fetch", "full_fetch"} /\ hist.deltaFetch[Target] = 0
        /\ ~(/\ cfg.sync_mode = "delta"
             /\ FilePreconditions(csv[Target], meta[Target])
             /\ CachePrecondition(csv[Target], media)))
          => pc = "full_fetch"
    /\ \A d \in Datasets :
          hist.wrote[d].sync_mode # "" =>
             IF cfg.sync_mode = "delta" /\ FilePreconditions(hist.oldFile[d], hist.before[d])
             THEN hist.wrote[d].sync_mode \in {"delta", "full"}
             ELSE hist.wrote[d].sync_mode = "full"

\* C4's case: in one run in delta mode, one dataset is synced in delta mode
\* and the other, whose metadata holds no cursor, in full mode.
C4_Witness ==
    /\ pc = "done"
    /\ cfg.sync_mode = "delta"
    /\ \E d1 \in Datasets : \E d2 \in Datasets :
          /\ hist.wrote[d1].sync_mode = "delta"
          /\ FilePreconditions(hist.oldFile[d1], hist.before[d1])
          /\ hist.wrote[d2].sync_mode = "full"
          /\ ~HasCursor(hist.before[d2])

\* Dataset d is the target and every delta precondition holds of the files
\* the run finds, except that a file its rows reference is not cached.
OnlyCacheMissing(d) ==
    /\ pc \in {"delta_fetch", "full_fetch"}
    /\ d = Target
    /\ cfg.sync_mode = "delta" /\ cfg.cache_media
    /\ FilePreconditions(csv[d], meta[d])
    /\ ~(RowsReferences(csv[d]) \subseteq FileNames(media))

\* Main's loop is past dataset d.
Processed(d) ==
    \/ pc \in {"finish", "done"}
    \/ (pc \notin Ended /\ pc # "idle" /\ \E i \in 1..Len(Targets) : Targets[i] = d /\ i < ti)

\* C5: when every delta precondition holds except that a file an existing
\* row references is missing from the media directory (caching on), no
\* delta fetch is issued for the dataset and the run goes on to a full sync
\* of it; once main's loop is past the dataset, that full sync has written
\* the rows and the metadata, with sync mode full.
C5_MissingCacheFallback ==
    \A d \in Datasets :
        /\ OnlyCacheMissing(d) =>
              /\ pc = "full_fetch"
              /\ hist.deltaFetch[d] = 0
              /\ hist.reason[d] = "missing_cache"
        /\ hist.reason[d] = "missing_cache" =>
              /\ hist.deltaFetch[d] = 0
              /\ hist.wrote[d].sync_mode \in {"", "full"}
              /\ Processed(d) =>
                    /\ hist.wrote[d].sync_mode = "full"
                    /\ csv[d].exists
                    /\ hist.wrote[d].record_count = Len(csv[d].rows)
                    /\ HasCursor(meta[d])

\* C5's case: a run in delta mode found a dataset with rows, cursor and
\* last-modified field whose cached file was gone; it issued no delta fetch,
\* synced that dataset in full (downloading the file again) and the other
\* dataset in delta mode.
C5_Witness ==
    /\ pc = "done"
    /\ cfg.sync_mode = "delta" /\ cfg.cache_media
    /\ \E d \in Datasets : \E other \in Datasets \ {d} :
          /\ FilePreconditions(hist.oldFile[d], hist.before[d])
          /\ hist.deltaFetch[d] = 0
          /\ hist.wrote[d].sync_mode = "full"
          /\ RowsReferences(hist.oldFile[d]) \cap h.fetched # {}
          /\ hist.wrote[other].sync_mode = "delta"

\* C10: whatever the mix of delta syncs, full syncs and fallbacks, a run
\* that writes the metadata of a dataset writes a cursor that is not
\* earlier, as a UTC instant, than the cursor it found there.
C10_CursorNeverDecreases ==
    \A d \in Datasets :
        (hist.wrote[d].sync_mode # "" /\ CursorInstant(hist.before[d]) # NoInstant) =>
            CursorInstant(meta[d]) >= CursorInstant(hist.before[d])

\* The datasets the run has written, and the files their rows reference.
WrittenReferences ==
    UNION {RowsReferences(csv[d]) : d \in {e \in Datasets : hist.wrote[e].sync_mode # ""}}

\* C6: at the end of a run with a download budget of N in which M > N
\* attachments were selected for caching, within the size limit as declared
\* and not cached when resolved, exactly N downloads were issued over all
\* datasets, and no attachment skipped for the budget appears in a written
\* row.
C6_BudgetExact ==
    (pc = "done" /\ hist.args.max_media_downloads # <<>>
       /\ Cardinality(h.need) > hist.args.max_media_downloads[1]) =>
        /\ h.downloads = hist.args.max_media_downloads[1]
        /\ h.skipB \cap WrittenReferences = {}

\* C7: an attachment resolved with a declared size, or with a file, over the
\* configured maximum is not in the media directory afterwards and is not
\* linked by a row the run writes, also when a file with its local filename
\* was in the media directory before the run.
C7_SizeEnforced ==
    \A name \in h.over :
        /\ ~FileExists(media, name)
        /\ name \notin h.linked
        /\ name \notin WrittenReferences

\* The attachments of the remote views.
RemoteAttachments ==
    UNION {UNION {UNION {SeqRange(remote[d][i].fields[f].val.l) :
                            f \in {g \in 1..Len(remote[d][i].fields) :
                                      remote[d][i].fields[g].val.k = "list"}} :
                     i \in 1..Len(remote[d])} :
              d \in Datasets}

\* C8: an attachment is never downloaded a second time: no download is
\* issued twice for one local filename within a run, none is issued for a
\* file that was cached when the run started, and two attachments with the
\* same identifier and filename derive the same local filename.
C8_Dedup ==
    /\ ~h.again
    /\ h.fetched \cap hist.dir0 = {}
    /\ \A a \in RemoteAttachments : \A b \in RemoteAttachments :
          (a.id = b.id /\ a.filename = b.filename) => LocalFilename(a) = LocalFilename(b)

\* The run has just written dataset d by a full sync, the sync of d before
\* it was a full sync under the same options, and nobody touched the view
\* or the media directory in between.
RepeatedFull(d) == hist.wrote[d].sync_mode = "full" /\ hist.stableFull[d]

SameFileAndLaterCursor(d) ==
    /\ csv[d].headers = hist.oldFile[d].headers
    /\ csv[d].rows = hist.oldFile[d].rows
    /\ CursorInstant(meta[d]) >= CursorInstant(hist.before[d])

\* C9 as claimed: a full sync repeated on unchanged remote records writes
\* the header list and the rows the first one wrote, and a cursor that is
\* not earlier.
C9_FullSyncIdempotent ==
    \A d \in Datasets : RepeatedFull(d) => SameFileAndLaterCursor(d)

\* C9, amended: the same, for runs without download budget that resolve the
\* published and the last-modified field as the first run did.
C9_FullSyncIdempotentNoBudget ==
    \A d \in Datasets :
        (/\ RepeatedFull(d)
         /\ hist.args.max_media_downloads = <<>>
         /\ meta[d].published_field = hist.before[d].published_field
         /\ meta[d].last_modified_field = hist.before[d].last_modified_field)
            => SameFileAndLaterCursor(d)

\* C9's case: a repeated full sync without budget found every attachment
\* cached, downloaded nothing and wrote the same rows, links included.
C9_Witness ==
    \E d \in Datasets :
        /\ RepeatedFull(d)
        /\ hist.args.max_media_downloads = <<>>
        /\ meta[d].published_field = hist.before[d].published_field
        /\ meta[d].last_modified_field = hist.before[d].last_modified_field
        /\ Len(csv[d].rows) > 1
        /\ RowsReferences(csv[d]) # {}
        /\ h.kept = 0
        /\ csv[d] = hist.oldFile[d]

\* The datasets of the run all have their files written.
AllWritten == \A d \in Datasets : hist.wrote[d].sync_mode # ""

\* C11: when the remote answers the delta fetch of a dataset with the
\* unknown-field failure, the run goes on with the full sync of that same
\* dataset and is not aborted by it, the dataset is written in full mode if
\* it is written, and a run that ends normally has written every dataset;
\* any other failure of the delta fetch aborts the run at once.
C11_UnknownFieldFallsBack ==
    /\ [](\A d \in Datasets :
            hist.answer[d] = "unknown_field" =>
                /\ hist.wrote[d].sync_mode \in {"", "full"}
                /\ (pc = "done" => AllWritten))
    /\ [][hist'.answer # hist.answer /\ pc = "delta_fetch" =>
            CASE hist'.answer[Target] = "unknown_field" ->
                    /\ pc' = "full_fetch"
                    /\ ti' = ti
                    /\ hist'.exit = hist.exit
              [] hist'.answer[Target] = "ok" -> pc' = "delta_loop"
              [] OTHER -> pc' = "aborted" /\ hist'.exit = 1]_vars

\* C11's case: the first dataset fell back to a full sync on an unknown
\* field and the second was still written by a delta sync in the same run.
C11_Witness ==
    /\ pc = "done"
    /\ hist.answer["events"] = "unknown_field"
    /\ hist.wrote["events"].sync_mode = "full"
    /\ hist.wrote["people"].sync_mode = "delta"

\* A step that modifies the output file or the metadata file of dataset d.
Modifies(d) == csv'[d] # csv[d] \/ meta'[d] # meta[d]

\* C12: the files of a dataset are modified only by the step that ends its
\* sync after every fetched record was processed, and that step does not
\* abort; so when a fetch or a download fails and the run stops, the files
\* of the dataset being processed are as the run found them, no dataset
\* from that one on has been written by the run, and nothing is written
\* after the failure.
C12_NoPartialCommit ==
    /\ [](pc = "aborted" =>
            /\ hist.exit = 1
            /\ meta[Target] = hist.before[Target]
            /\ \A i \in ti..Len(Targets) : hist.wrote[Targets[i]].sync_mode = "")
    /\ [][\A d \in Datasets :
            Modifies(d) =>
                /\ d = Target
                /\ pc \in {"delta_loop", "full_loop"}
                /\ work.idx > Len(work.records)
                /\ pc' # "aborted"]_vars
    /\ [][pc = "aborted" => csv' = csv /\ meta' = meta /\ media' = media]_vars

\* C12's case: the run wrote the first dataset, then a download failed while
\* the second was processed, and the files the second had are still there.
C12_Witness ==
    /\ pc = "aborted"
    /\ ti = 2
    /\ h.downloads > 0
    /\ hist.wrote["events"].sync_mode # ""
    /\ hist.wrote["people"].sync_mode = ""
    /\ csv["people"].exists
    /\ meta["people"] = hist.before["people"]
    /\ meta["people"] # NoMeta

\* The names of the cached files a step deletes.
Deleted == FileNames(media) \ FileNames(media')

\* C13: a run prunes at most once, and only when the loop over the datasets
\* is over with every dataset written, pruning was asked for and caching is
\* on; within a run no step but that one deletes a cached file, and a run
\* that aborted has not pruned.
C13_PruneOnceAtTheEnd ==
    /\ [](/\ hist.prunes <= 1
          /\ (hist.prunes = 1 =>
                /\ pc = "done"
                /\ AllWritten
                /\ hist.prune_media
                /\ cfg.cache_media)
          /\ (pc = "aborted" => hist.prunes = 0))
    /\ [][(pc # "idle" /\ Deleted # {}) =>
            /\ pc = "finish"
            /\ AllWritten
            /\ cfg.cache_media
            /\ hist'.prune_media
            /\ hist'.prunes = 1]_vars

\* C13's case: a run wrote every dataset, one of them by a delta sync, and
\* its prune then deleted a cached file.
C13_Witness ==
    /\ pc = "done"
    /\ hist.prunes = 1
    /\ hist.pruned # {}
    /\ AllWritten
    /\ \E d \in Datasets : hist.wrote[d].sync_mode = "delta"

\* The type selection names a type that is none of image, pdf and file.
InvalidSelection(args) ==
    /\ args.cache_media_types # <<"">>
    /\ \E i \in 1..Len(args.cache_media_types) :
          args.cache_media_types[i] \notin {"", "image", "pdf", "file"}

\* The options a run must refuse, the budget counted as wrong from `least`
\* downwards.
InvalidOptions(args, least) ==
    \/ InvalidSelection(args)
    \/ args.max_media_file_mb <= 0
    \/ (args.max_media_downloads # <<>> /\ args.max_media_downloads[1] <= least)

\* A refused run: it ends with an error and has fetched, downloaded and
\* written nothing.
Refused ==
    /\ pc = "rejected"
    /\ hist.exit = 2
    /\ h.downloads = 0
    /\ \A d \in Datasets : hist.deltaFetch[d] = 0 /\ hist.wrote[d].sync_mode = ""

\* The files are left alone by a step into or out of a refused run.
RefusedTouchesNothing ==
    (pc' = "rejected" \/ pc = "rejected") =>
        /\ csv' = csv
        /\ meta' = meta
        /\ media' = media
        /\ pc \in {"idle", "rejected"}

\* C14, as claimed: a run with an invalid type selection, a maximum file
\* size of zero or less or a download budget of zero or less is refused
\* before anything is fetched, downloaded or written.
C14_ConfigErrorsFatal ==
    /\ [](pc \notin {"idle", "rejected"} => ~InvalidOptions(hist.args, 0))
    /\ [](pc = "rejected" => Refused)
    /\ [][RefusedTouchesNothing]_vars

\* C14, amended: the same with a download budget below zero; a budget of
\* zero is accepted.
C14_ConfigErrorsFatalNegativeBudget ==
    /\ [](pc \notin {"idle", "rejected"} => ~InvalidOptions(hist.args, -1))
    /\ [](pc = "rejected" => Refused /\ InvalidOptions(hist.args, -1))
    /\ [][RefusedTouchesNothing]_vars

\* C14's case: a run is refused for its type selection while datasets and
\* cached files of an earlier run exist.
C14_Witness ==
    /\ pc = "rejected"
    /\ InvalidSelection(hist.args)
    /\ media # {}
    /\ \A d \in Datasets : csv[d].exists

\* The loop of a sync stands before a record.
AtRecord == pc \in {"delta_loop", "full_loop"} /\ work.idx <= Len(work.records)

\* The attachments of the record the loop stands before, in the order they
\* are resolved.
RecordAttachments ==
    IF is_attachment_list(FieldGet(work.records[work.idx].fields, "Images", EmptyText))
    THEN FieldGet(work.records[work.idx].fields, "Images", EmptyText).l
    ELSE <<>>

\* The cache before and after the k-th attachment of the record is resolved
\* with every download succeeding.
BeforeAttachment(k) ==
    ResolveAll(CacheState, SubSeq(RecordAttachments, 1, k - 1), cfg, 0)
AfterAttachment(k) ==
    ResolveAttachment(BeforeAttachment(k), RecordAttachments[k], cfg, 0)

\* The type the attachment is classified as.
TypeOf(attachment) ==
    classify_attachment_type(attachment,
        Filename(attachment, SourceUrl(attachment)), SourceUrl(attachment))

\* Why an attachment is not cached: caching is off, its type is not
\* selected, its file is missing and the budget is spent, or it is declared
\* or (when downloaded) found larger than the limit.
Unselected(attachment) ==
    /\ ~cfg.cache_media_types.none
    /\ TypeOf(attachment) \notin cfg.cache_media_types.types
SkippedForBudget(st, attachment) ==
    /\ ~FileExists(st.media, LocalFilename(attachment))
    /\ st.budget # <<>>
    /\ st.budget[1] <= 0
SkippedForSize(st, attachment) ==
    \/ (attachment.size # NoSize /\ attachment.size > cfg.max_media_file_mb * BytesPerMb)
    \/ (/\ ~FileExists(st.media, LocalFilename(attachment))
        /\ attachment.bytes > cfg.max_media_file_mb * BytesPerMb)
NotCached(st, attachment) ==
    \/ ~cfg.cache_media
    \/ Unselected(attachment)
    \/ SkippedForBudget(st, attachment)
    \/ SkippedForSize(st, attachment)

\* The token is a link into the media directory to the attachment's local
\* file, not its URL.
LocalToken(token, attachment) ==
    /\ token.target = MediaPrefix \o LocalFilename(attachment)
    /\ token.target # attachment.url

\* C15: resolving an attachment that is not cached (caching is off, its
\* type is not selected, or it is skipped for the budget or its size) adds
\* no token to the cell, and a token that resolving an attachment adds
\* links the attachment's file in the media directory, never its URL.
C15_UncachedOmitted ==
    AtRecord =>
        \A k \in 1..Len(RecordAttachments) :
            /\ NotCached(BeforeAttachment(k), RecordAttachments[k]) =>
                   AfterAttachment(k).parts = BeforeAttachment(k).parts
            /\ AfterAttachment(k).parts # BeforeAttachment(k).parts =>
                   /\ Len(AfterAttachment(k).parts) = Len(BeforeAttachment(k).parts) + 1
                   /\ LocalToken(AfterAttachment(k).parts[Len(AfterAttachment(k).parts)],
                                 RecordAttachments[k])

\* C15's case: with caching on and a selection of types, the loop stands
\* before a record with an attachment of an unselected type and one that is
\* skipped for its size, while the record before it got a link.
C15_Witness ==
    /\ AtRecord
    /\ cfg.cache_media
    /\ h.linked # {}
    /\ \E k \in 1..Len(RecordAttachments) :
          Unselected(RecordAttachments[k])
    /\ \E k \in 1..Len(RecordAttachments) :
          /\ ~Unselected(RecordAttachments[k])
          /\ SkippedForSize(BeforeAttachment(k), RecordAttachments[k])

\* The type selection of the run names no type.
EmptySelection(args) ==
    \A i \in 1..Len(args.cache_media_types) : args.cache_media_types[i] = ""

\* C16: in a run with caching on and a type selection that names no type,
\* no attachment is downloaded, none is added to the in-use set by its
\* resolution, and none is linked in a cell.
C16_EmptySelectionCachesNothing ==
    (pc \notin {"idle", "rejected"} /\ cfg.cache_media /\ EmptySelection(hist.args)) =>
        /\ h.downloads = 0
        /\ h.linked = {}

\* The characters of a name after its last dot (<<>> when it has none).
RECURSIVE AfterLastDot(_)
AfterLastDot(name) ==
    IF "." \notin SeqRange(name) THEN <<>>
    ELSE IF name[Len(name)] = "." THEN <<>>
    ELSE Append(AfterLastDot(SubSeq(name, 1, Len(name) - 1)), name[Len(name)])

\* The attachment's file name ends in a blocked extension, in any case.
Blocked(attachment) ==
    LowerChars(AfterLastDot(attachment.filename)) \in BLOCKED_MEDIA_EXTENSIONS

\* The attachments the views of the run hold.
ViewAttachments ==
    UNION {UNION {UNION {SeqRange(f.val.l) : f \in {g \in SeqRange(r.fields) : g.val.k = "list"}}
                    : r \in SeqRange(remote[d])}
            : d \in Datasets}

\* C18: an attachment whose file name has a blocked extension (tif, tiff)
\* is left out whatever the type selection and whether caching is on:
\* resolving it changes nothing (no download, no in-use name, no budget
\* spent, no token), and its file is never fetched, cached, in use or
\* linked.
C18_BlockedOmitted ==
    /\ \A a \in ViewAttachments :
          Blocked(a) =>
              LocalFilename(a) \notin
                  (FileNames(media) \cup used \cup h.fetched \cup h.linked \cup h.need)
    /\ AtRecord =>
          \A k \in 1..Len(RecordAttachments) :
              Blocked(RecordAttachments[k]) => AfterAttachment(k) = BeforeAttachment(k)

\* C18's case: with caching on, a budget left and its type selected, a
\* blocked attachment stands first in a record whose next attachment is
\* downloaded.
C18_Witness ==
    /\ AtRecord
    /\ cfg.cache_media
    /\ budget # <<>>
    /\ budget[1] > 0
    /\ Len(RecordAttachments) > 1
    /\ Blocked(RecordAttachments[1])
    /\ ~Unselected(RecordAttachments[1])
    /\ AfterAttachment(2).h.downloads > BeforeAttachment(2).h.downloads

\* The attachment is one the run caches: it has a URL, its extension is not
\* blocked, caching is on and its type is selected.
Selected(attachment) ==
    /\ SourceUrl(attachment) # <<>>
    /\ ~Blocked(attachment)
    /\ cfg.cache_media
    /\ ~Unselected(attachment)

\* The attachment's local file is in the media directory of st.
Cached(st, attachment) == LocalFilename(attachment) \in FileNames(st.media)

\* The attachment is declared larger than the limit.
DeclaredTooLarge(attachment) ==
    attachment.size # NoSize /\ attachment.size > cfg.max_media_file_mb * BytesPerMb

\* Resolving the attachment from st gave r by referencing the cached file:
\* no download, the budget and the directory as they were, the name in use
\* and its link appended to the cell.
Referenced(st, r, attachment) ==
    /\ r.calls = st.calls
    /\ r.h.downloads = st.h.downloads
    /\ r.budget = st.budget
    /\ r.media = st.media
    /\ LocalFilename(attachment) \in r.used
    /\ Len(r.parts) = Len(st.parts) + 1
    /\ SubSeq(r.parts, 1, Len(st.parts)) = st.parts
    /\ r.parts[Len(r.parts)].target = MediaPrefix \o LocalFilename(attachment)

\* C17, as claimed: resolving an attachment selected for caching whose
\* local file is already in the media directory references it, without a
\* download and with the budget unchanged, also when the budget is spent.
C17_CachedAlwaysReferenced ==
    AtRecord =>
        \A k \in 1..Len(RecordAttachments) :
            (Selected(RecordAttachments[k]) /\ Cached(BeforeAttachment(k), RecordAttachments[k]))
                => Referenced(BeforeAttachment(k), AfterAttachment(k), RecordAttachments[k])

\* C17, amended: the same for an attachment that is not declared larger
\* than the size limit of the run.
C17_CachedReferencedUnlessDeclaredTooLarge ==
    AtRecord =>
        \A k \in 1..Len(RecordAttachments) :
            (/\ Selected(RecordAttachments[k])
             /\ Cached(BeforeAttachment(k), RecordAttachments[k])
             /\ ~DeclaredTooLarge(RecordAttachments[k]))
                => Referenced(BeforeAttachment(k), AfterAttachment(k), RecordAttachments[k])

\* C17's case: the budget of the run is spent and the record holds an
\* attachment whose file an earlier run cached.
C17_Witness ==
    /\ AtRecord
    /\ budget = <<0>>
    /\ \E k \in 1..Len(RecordAttachments) :
          /\ Selected(RecordAttachments[k])
          /\ Cached(BeforeAttachment(k), RecordAttachments[k])
          /\ ~DeclaredTooLarge(RecordAttachments[k])
          /\ LocalFilename(RecordAttachments[k]) \in hist.dir0

\* The name the metadata of d records under key: empty when none is.
Recorded(d, key) == IF meta[d][key].k = "str" THEN meta[d][key].s ELSE ""

\* The columns that match the candidate whatever the case.
Matching(headers, candidate) ==
    {name \in SeqRange(headers) : LowerName(name) = LowerName(candidate)}

\* name is what the resolution order gives on the files of d: the recorded
\* name, else a column matching the earliest candidate that has one, else
\* the empty name.
ResolvesTo(name, d, headers, candidates, key) ==
    IF Recorded(d, key) # "" THEN name = Recorded(d, key)
    ELSE IF \A i \in 1..Len(candidates) : Matching(headers, candidates[i]) = {}
         THEN name = ""
    ELSE \E i \in 1..Len(candidates) :
            /\ name \in Matching(headers, candidates[i])
            /\ \A j \in 1..(i - 1) : Matching(headers, candidates[j]) = {}

\* The columns of the CSV file of the target.
KnownHeaders == read_existing_rows_by_record_id(csv[Target]).headers

\* Before a target: resolve gives both role fields by the resolution order.
ResolvedInOrder ==
    pc = "target" =>
        /\ ResolvesTo(resolve_known_field_name(meta[Target], KnownHeaders,
                          LAST_MODIFIED_FIELD_CANDIDATES, "last_modified_field"),
                      Target, KnownHeaders, LAST_MODIFIED_FIELD_CANDIDATES,
                      "last_modified_field")
        /\ ResolvesTo(resolve_known_field_name(meta[Target], KnownHeaders,
                          PUBLISHED_FIELD_CANDIDATES, "published_field"),
                      Target, KnownHeaders, PUBLISHED_FIELD_CANDIDATES, "published_field")

\* A delta sync that starts works with the fields so resolved.
DeltaWorksWithResolved ==
    (pc = "target" /\ pc' = "delta_fetch") =>
        /\ ResolvesTo(work'.last_modified_field, Target, KnownHeaders,
                      LAST_MODIFIED_FIELD_CANDIDATES, "last_modified_field")
        /\ ResolvesTo(work'.published_field, Target, KnownHeaders,
                      PUBLISHED_FIELD_CANDIDATES, "published_field")

\* A delta sync is never under way with an empty last-modified field.
DeltaHasLastModified ==
    pc \in {"delta_fetch", "delta_loop"} => work.last_modified_field # ""

\* With an empty published field the delta fetch asks for the records
\* edited after the cursor, unpublished ones included, and the loop
\* deletes no row: a fetched record with an id is in the rows after its
\* turn, and the rows of the others stay.
DeltaWithoutPublishedField ==
    (pc = "delta_loop" /\ work.published_field = "") =>
        /\ \A i \in 1..Len(work.records) :
              parse_iso_datetime(FieldGet(work.records[i].fields,
                                          work.last_modified_field, VNone))
                  > parse_iso_datetime(work.previous_cursor)
        /\ (pc' = "delta_loop" /\ work'.idx = work.idx + 1) =>
              /\ DictKeys(work.rows_by_id) \subseteq DictKeys(work'.rows_by_id)
              /\ work.records[work.idx].id # ""
                    => work.records[work.idx].id \in DictKeys(work'.rows_by_id)

\* C19: resolve gives the field name the metadata records when it is not
\* empty, also when no column bears it; else the column that matches the
\* earliest candidate whatever the case; else the empty name. No delta sync
\* is under way with an empty last-modified field; with an empty published
\* field it is, and then nothing is filtered out or deleted for being
\* unpublished.
C19_RoleFieldResolution ==
    /\ []ResolvedInOrder
    /\ []DeltaHasLastModified
    /\ [][DeltaWorksWithResolved /\ DeltaWithoutPublishedField]_vars

\* C19's case: a delta sync under way with a last-modified field that the
\* metadata records and no column bears, no published field known, and an
\* unpublished record upserted.
C19_Witness ==
    /\ pc = "delta_loop"
    /\ work.published_field = ""
    /\ work.last_modified_field \notin SeqRange(work.existing_headers)
    /\ \E i \in 1..(work.idx - 1) :
          /\ ~is_published(FieldGet(work.records[i].fields, "Published", VNone))
          /\ work.records[i].id \in DictKeys(work.rows_by_id)

\* C20: when the loop over the datasets ends, the in-use set is the set of
\* the files the rows written for all datasets reference; and after the
\* prune no file is left in the media directory that no such row
\* references, also when a delta sync was given up after the scan of the
\* existing rows.
C20_InUseIsReferenced ==
    /\ pc = "finish" => used = ReferencedFiles
    /\ (pc = "done" /\ hist.prunes > 0) => FileNames(media) \subseteq ReferencedFiles

\* The answers the attempts of the latest download met, and their number.
LastAnswers == h.last.answers
LastAttempts == Len(h.last.answers)

\* C21: a download makes at most three attempts; an attempt is followed by
\* another only after a 5xx response or a transport failure; any other HTTP
\* error raises on the attempt where it happens; a failure of the third
\* attempt raises; the call returns only when its last attempt succeeded;
\* and a call that raised ends the run.
C21_DownloadRetry ==
    h.last # NoDownload =>
        /\ LastAttempts \in 1..DownloadAttempts
        /\ \A i \in 1..(LastAttempts - 1) : LastAnswers[i] \in {"http_5xx", "url_error"}
        /\ \A i \in 1..LastAttempts :
              LastAnswers[i] = "http_4xx" => (i = LastAttempts /\ h.last.raised)
        /\ LastAnswers[LastAttempts] # "ok" => h.last.raised
        /\ ~h.last.raised => LastAnswers[LastAttempts] = "ok"
        /\ h.last.raised => (pc = "aborted" /\ hist.exit = 1)

\* C21's case: a download retried after a 5xx response and after a
\* transport failure, and given up at the third attempt.
C21_Witness ==
    /\ h.last.raised
    /\ LastAttempts = DownloadAttempts
    /\ LastAnswers[1] = "http_5xx"
    /\ LastAnswers[2] = "url_error"

\* The name is one of a temporary path.
IsTemporary(name) ==
    Len(name) >= 4 /\ SubSeq(name, Len(name) - 3, Len(name)) = <<".","t","m","p">>

\* No temporary file is in the media directory.
NoTemporaryFile == \A f \in media : ~IsTemporary(f.name)

\* Every file of the media directory holds the whole content of an
\* attachment of that name.
WholeFiles ==
    \A f \in media : \E attachment \in ViewAttachments :
        LocalFilename(attachment) = f.name /\ attachment.bytes = f.size

\* A download that raised has left no file under its final name that was
\* not there before.
FailedDownloadAddsNothing ==
    (h'.downloads > h.downloads /\ h'.last.raised) =>
        (h'.last.name \in FileNames(media') => h'.last.name \in FileNames(media))

\* C22: whenever a download has returned or raised its temporary path is
\* gone; a file under a final name holds the whole content, renamed into
\* place; a failed download leaves no new file under the final name.
C22_NoPartialFiles ==
    /\ []NoTemporaryFile
    /\ []WholeFiles
    /\ [][FailedDownloadAddsNothing]_vars

\* C22's case: the connection broke while the content was copied, at the
\* second attempt, and the download raised.
C22_Witness ==
    /\ h.last.raised
    /\ LastAttempts = 2
    /\ LastAnswers[2] = "broken"
    /\ h.last.name \notin FileNames(media)

\* The requests of the full fetch of the target, as the step leaves them.
FullRequests == hist'.requests[Target]

\* The published field a full fetch finds in the whole view.
FoundInView == discover_field_name_from_records(remote[Target], PUBLISHED_FIELD_CANDIDATES)

\* C23: a full fetch filters by the published field of the metadata; when
\* that request is rejected for an unknown field it is retried once, with
\* no filter, and the field of the metadata is given up (the published
\* field is the one found in the records, or none); the run fails when the
\* retry fails, when the first failure is of another kind and when an
\* unfiltered first request fails.
C23_FullFetchRetry ==
    [][(pc = "full_fetch" /\ pc' # "full_fetch") =>
        /\ Len(FullRequests) \in 1..2
        /\ FullRequests[1].filter = Recorded(Target, "published_field")
        /\ Len(FullRequests) = 2 <=>
              (FullRequests[1].filter # "" /\ FullRequests[1].answer = "unknown_field")
        /\ Len(FullRequests) = 2 => FullRequests[2].filter = ""
        /\ IF FullRequests[Len(FullRequests)].answer = "ok"
           THEN /\ pc' = "full_loop"
                /\ Len(FullRequests) = 2 =>
                      /\ work'.published_field = FoundInView
                      /\ work'.records = PublishedRecords(remote[Target], FoundInView)
           ELSE pc' = "aborted" /\ hist'.exit = 1]_vars

\* C23's case: the published field of the metadata is unknown to the
\* table, the retry without filter succeeds, no published field is found
\* and the records of the view are all kept.
C23_Witness ==
    /\ pc = "full_loop"
    /\ Len(hist.requests[Target]) = 2
    /\ hist.before[Target].published_field # VNone
    /\ work.published_field = ""
    /\ work.records # <<>>

\* The greatest instant of a set that is not empty.
Latest(instants) == CHOOSE t \in instants : \A u \in instants : u <= t

\* The instants the delta cursor is taken from: the previous cursor and the
\* last-modified values of the fetched records, read under the field the
\* sync records, those that parse.
DeltaInstants(last_modified_field) ==
    ({parse_iso_datetime(work.previous_cursor)}
        \cup {parse_iso_datetime(FieldGet(work.records[i].fields, last_modified_field, VNone)) :
                i \in 1..Len(work.records)})
    \ {NoInstant}

\* C24: the cursor a delta sync writes is, as an instant, the later of the
\* previous cursor and the latest parseable last-modified value of the
\* fetched records: the previous cursor when no record has one, and the
\* current time only when nothing parses.
C24_DeltaCursorRule ==
    [][(pc = "delta_loop" /\ pc' \in {"target", "finish"}) =>
        CursorInstant(meta'[Target]) =
            IF DeltaInstants(meta'[Target].last_modified_field.s) # {}
            THEN Latest(DeltaInstants(meta'[Target].last_modified_field.s))
            ELSE clock]_vars

\* C24's case: a delta sync whose previous cursor does not parse fetched no
\* record and wrote the current time.
C24_Witness ==
    \E d \in Datasets :
        /\ DeltaWritten(d)
        /\ CursorInstant(hist.before[d]) = NoInstant
        /\ work.records = <<>>
        /\ CursorInstant(meta[d]) = clock

\* The records the last request of the full fetch returned.
FullFetched ==
    IF FullRequests[Len(FullRequests)].filter = "" THEN remote[Target]
    ELSE FetchFull(remote[Target], FullRequests[Len(FullRequests)].filter)

\* The fetched record counts as published under the field.
PublishedUnder(record, published_field) ==
    is_published(FieldGet(record.fields, published_field, VNone))

\* The records of a sequence that satisfy Keep, in their order.
Kept(records, Keep(_)) == SelectSeq(records, Keep)

\* After the fetch of a full sync: with a published field known the
\* records kept are the fetched ones whose published value is truthy, else
\* all the fetched ones; the field is the one found in the fetched records,
\* else the one carried from the metadata.
FullKeepsPublished ==
    (pc = "full_fetch" /\ pc' = "full_loop") =>
        /\ work'.published_field \in
              {discover_field_name_from_records(FullFetched, PUBLISHED_FIELD_CANDIDATES),
               Recorded(Target, "published_field")}
        /\ work'.records =
              IF work'.published_field = "" THEN FullFetched
              ELSE Kept(FullFetched, LAMBDA r : PublishedUnder(r, work'.published_field))

\* Once a full sync of d is written: one row for each record kept, in their
\* order, and metadata with sync mode "full" and both counts equal to the
\* number of rows.
FullWritesKept ==
    \A d \in Datasets :
        (hist.wrote[d].sync_mode = "full" /\ work.d = d) =>
            /\ Len(csv[d].rows) = Len(work.records)
            /\ \A i \in 1..Len(work.records) :
                  csv[d].rows[i][RECORD_ID_HEADER] = VStr(work.records[i].id)
            /\ hist.wrote[d].record_count = Len(csv[d].rows)
            /\ hist.wrote[d].changed_records = Len(csv[d].rows)

\* C25: a full sync with a published field known writes one row for each
\* fetched record with a truthy published value and none for the others;
\* with no published field known it writes one row for every fetched
\* record; the metadata records sync mode "full" and a changed-record count
\* equal to the number of rows.
C25_FullSyncRows ==
    /\ [][FullKeepsPublished]_vars
    /\ []FullWritesKept

\* C25's case: a full sync written with a published field known, a fetched
\* record left out for being unpublished and another written.
C25_Witness ==
    \E d \in Datasets :
        /\ hist.wrote[d].sync_mode = "full" /\ work.d = d
        /\ work.published_field # ""
        /\ Len(csv[d].rows) > 0
        /\ \E i \in 1..Len(remote[d]) : ~PublishedUnder(remote[d][i], work.published_field)
        /\ hist.wrote[d].changed_records = Len(csv[d].rows)

\* The elements of a sequence in the order of their first occurrence.
RECURSIVE FirstSeen(_)
FirstSeen(s) ==
    IF s = <<>> THEN <<>>
    ELSE IF s[Len(s)] \in SeqRange(SubSeq(s, 1, Len(s) - 1))
         THEN FirstSeen(SubSeq(s, 1, Len(s) - 1))
    ELSE Append(FirstSeen(SubSeq(s, 1, Len(s) - 1)), s[Len(s)])

\* The field names of the records, record by record.
RECURSIVE FieldNames(_)
FieldNames(records) ==
    IF records = <<>> THEN <<>>
    ELSE FieldKeys(Head(records).fields) \o FieldNames(Tail(records))

\* The identifier column, then the other columns of the previous file.
PreviousColumns(d) ==
    <<RECORD_ID_HEADER>> \o SelectSeq(csv[d].headers, LAMBDA name : name # RECORD_ID_HEADER)

\* previous, then the names of more that previous lacks, each once.
Extended(previous, more) ==
    previous \o SelectSeq(FirstSeen(more), LAMBDA name : name \notin SeqRange(previous))

\* The column set C26 describes for a delta sync of d that fetched records.
DeltaColumns(d, records) ==
    Extended(Extended(PreviousColumns(d),
                      SelectSeq(PreferredHeaders(d), LAMBDA name : name # "")),
             FieldNames(records))

\* C26: the header list a delta sync writes is the identifier column, the
\* columns of the previous file in their order, the preferred columns not
\* yet present, then the new field names of the fetched records in
\* first-seen order; no column twice, none of the previous file dropped.
C26_DeltaColumns ==
    [][(pc = "delta_loop" /\ pc' \in {"target", "finish"}) =>
        /\ csv'[Target].headers = DeltaColumns(Target, work.records)
        /\ Len(FirstSeen(csv'[Target].headers)) = Len(csv'[Target].headers)
        /\ SeqRange(csv[Target].headers) \subseteq SeqRange(csv'[Target].headers)]_vars

\* C27: once a sync of a dataset is written, full or delta, no two of its
\* rows bear the same record identifier and none bears an empty one: the
\* rows are those the next run reads back as its keyed row set.
C27_RowsKeyedById ==
    \A d \in Datasets :
        hist.wrote[d].sync_mode \in {"full", "delta"} =>
            /\ \A i \in 1..Len(csv[d].rows) : RowId(csv[d].rows[i]) # ""
            /\ \A i, j \in 1..Len(csv[d].rows) :
                  RowId(csv[d].rows[i]) = RowId(csv[d].rows[j]) => i = j
            /\ DictValues(read_existing_rows_by_record_id(csv[d]).rows_by_id) = csv[d].rows

\* C28: with caching on, when a run has completed, the prune included,
\* every local media reference in a row of a dataset file it wrote names a
\* file of the media directory.
C28_LinksResolve ==
    (pc = "done" /\ cfg.cache_media) => ReferencedFiles \subseteq FileNames(media)

\* The cache before and after the k-th attachment of the record is resolved
\* when the failAt-th download of the record raises (0: none does).
BeforeWith(k, failAt) ==
    ResolveAll(CacheState, SubSeq(RecordAttachments, 1, k - 1), cfg, failAt)
AfterWith(k, failAt) ==
    ResolveAttachment(BeforeWith(k, failAt), RecordAttachments[k], cfg, failAt)

\* Resolving the attachment from st gave r by a download that succeeded and
\* whose file was kept.
DownloadKept(st, r, attachment) ==
    /\ r.h.downloads = st.h.downloads + 1
    /\ ~r.failed
    /\ Cached(r, attachment)

\* Resolving the attachment from st gave r: the remaining budget went down
\* by one for a download that was kept and is unchanged otherwise, and it
\* is not negative.
BudgetCounts(st, r, attachment) ==
    /\ r.budget # <<>>
    /\ r.budget[1] >= 0
    /\ r.budget[1] = st.budget[1] - (IF DownloadKept(st, r, attachment) THEN 1 ELSE 0)

\* Between two states of a run the remaining budget does not go up, and it
\* goes down by the number of downloads kept.
BudgetOnlyDecreases ==
    (budget # <<>> /\ budget' # <<>>) =>
        /\ budget'[1] <= budget[1]
        /\ budget[1] - budget'[1] = h'.kept - h.kept

\* C29: when a download budget is configured the remaining budget is never
\* negative, only ever decreases during the run, and goes down by exactly
\* one for each download that succeeded and whose file was kept; an
\* attachment skipped for its declared size, a download that fails and a
\* download discarded as oversized leave it unchanged.
C29_BudgetCounter ==
    /\ [](budget # <<>> => budget[1] >= 0)
    /\ []((AtRecord /\ budget # <<>>) =>
            \A failAt \in 0..Len(RecordAttachments) :
                \A k \in 1..Len(RecordAttachments) :
                    BudgetCounts(BeforeWith(k, failAt), AfterWith(k, failAt),
                                 RecordAttachments[k]))
    /\ [][BudgetOnlyDecreases]_vars

\* C29's case: with a budget of one, the record's first attachment is
\* downloaded and discarded as oversized, the budget still one, and the
\* second is downloaded and kept, the budget then zero; when the second
\* download fails the budget stays one.
C29_Witness ==
    /\ AtRecord
    /\ budget = <<1>>
    /\ Len(RecordAttachments) = 2
    /\ AfterWith(1, 0).h.downloads = BeforeWith(1, 0).h.downloads + 1
    /\ ~Cached(AfterWith(1, 0), RecordAttachments[1])
    /\ AfterWith(1, 0).budget = <<1>>
    /\ DownloadKept(BeforeWith(2, 0), AfterWith(2, 0), RecordAttachments[2])
    /\ AfterWith(2, 0).budget = <<0>>
    /\ AfterWith(2, 2).failed
    /\ AfterWith(2, 2).budget = <<1>>

\* The existing rows of dataset d that the delta sync did not fetch.
Untouched(d) == {e \in SeqRange(ExistingRows(d)) : e.id \notin FetchedIds}

\* The delta sync of d wrote the row e as it was, cell for cell.
WrittenAsItWas(d, e) ==
    \E j \in 1..Len(csv[d].rows) :
        /\ csv[d].rows[j] = WrittenRow(csv[d].headers, e.row)
        /\ \A header \in DOMAIN e.row : csv[d].rows[j][header] = e.row[header]

\* A step in which a delta attempt is abandoned for the full sync.
DeltaAbandoned ==
    pc \in {"target", "delta_fetch"} /\ cfg.sync_mode = "delta" /\ pc' = "full_fetch"

\* C30: a delta sync leaves every existing row whose identifier is not
\* among the fetched records unchanged in all its cell values and keeps the
\* media files those rows reference in the in-use set; a delta attempt that
\* is abandoned (a failed precondition, an unknown-field answer) modifies
\* neither the dataset file, the metadata file, the media directory nor the
\* download budget before the full sync starts.
C30_DeltaFrame ==
    /\ [](\A d \in Datasets :
            DeltaWritten(d) =>
                \A e \in Untouched(d) :
                    /\ WrittenAsItWas(d, e)
                    /\ extract_media_references_from_row(e.row) \subseteq used)
    /\ [][DeltaAbandoned =>
            /\ csv' = csv
            /\ meta' = meta
            /\ media' = media
            /\ budget' = budget]_vars

====
